---- MODULE Spec2Model ----
(***************************************************************************)
(* Model of the weather-planning dashboard "Will It Rain On My Parade?":   *)
(* the suitability scorer and event suggestion selector                    *)
(* (src/utils/scoring.py), the forecast aggregator and fallback date       *)
(* selector (src/utils/helpers.py) and the flows of src/app.py that feed   *)
(* them.                                                                   *)
(*                                                                         *)
(* Numbers.  Python floats are modelled as exact rationals [n, d] in       *)
(* lowest terms with d > 0; all inputs are dyadic so that the float sums   *)
(* of the code are exact too.                                              *)
(* Strings.  A Python str is a sequence of one-character strings, so that  *)
(* startswith, split and the code-point order of sorted() are computed.    *)
(* Optional values.  None is the empty sequence and a present value x is   *)
(* the one-element sequence <<x>>.                                         *)
(***************************************************************************)
EXTENDS Integers, Sequences, FiniteSets, TLC

VARIABLES
    forecast_input,    \* scoring.py: the `forecast` dict handed to the scorer / selector
    historical_input,  \* scoring.py: the `historical` dict handed to the scorer
    result,            \* Option: the dict returned by parade_suitability_score
    suggestion,        \* Option: the string returned by get_event_suggestion
    other_forecast,    \* a second `forecast` dict, for a second call of the scorer
    other_historical,  \* a second `historical` dict
    other_result,      \* Option: what the scorer returned for the second call
    data,              \* Option: the forecast response, a dict with a "list" of points
    target_date,       \* the target date string of the last call
    op,                \* the function of helpers.py called last
    weather,           \* Option: the aggregate returned by the last call
    used_date,         \* Option: the date string returned by the last call
    substituted,       \* the flag returned by process_forecast_with_fallback
    previous,          \* Option: what process_forecast returned to the call before,
                       \* when the last two calls were both process_forecast
    pc,                \* app.py: the step a request has reached
    flow,              \* app.py: "main" (check weather) or "compare" (compute_city_score)
    target_dt,         \* app.py: the date of the request, <<y, m, d>>
    hist,              \* Option: the dict of historical monthly averages
    steps,             \* app.py: the steps the request has run, in order
    display,           \* app.py: what the page shows, a record of Options
    secrets,           \* settings.py: st.secrets, a dict name -> value
    environ,           \* settings.py: os.environ, a dict name -> str
    service,           \* the service function called last
    requests,          \* the HTTP requests issued by the last service call, in order
    returned,          \* Option: what the last service call returned
    exception,         \* whether the last service call ended in an exception
    attempt,           \* nasa_api.py: `attempt` of the geocoding loop, 0 outside the loop
    attempts,          \* what each geolocator.geocode call of the loop did, in order
    sleeps,            \* the arguments of the time.sleep calls of the loop, in order
    openai_secret,     \* openai_ai.py: Option, st.secrets["OPENAI_API_KEY"]
    openai_env,        \* openai_ai.py: Option, os.environ["OPENAI_API_KEY"]
    now,               \* time.time(), in seconds
    _OPENAI_CLIENT_CACHE, \* Option: the tuple (client, ts, key) under 'client'
    _MODEL_CANDIDATES, \* the list built once by _load_model_candidates()
    _SELECTED_MODEL,   \* Option: the model that answered last
    gemini_configured, \* what gemini_ai._configure(), an lru_cache, answers
    ai_pc,             \* where the running openai_ai call stands
    has_parts,         \* whether the weather dict of the call has any value
    client,            \* Option: the client the running call got from _configure
    models,            \* the list _chat iterates over, from _choose_model()
    tried,             \* the create calls of the running _chat, in order
    last_err,          \* Option: `last_err` of the running _chat
    chat_result        \* Option: the tuple _chat returned

scoreVars == <<forecast_input, historical_input, result, suggestion,
               other_forecast, other_historical, other_result>>
dataVars == <<data>>
callVars == <<target_date, op, weather, used_date, substituted, previous>>
appVars == <<pc, flow, target_dt, hist, steps, display>>
apiVars == <<secrets, environ, service, requests, returned, exception>>
geoVars == <<attempt, attempts, sleeps>>
keyVars == <<openai_secret, openai_env, now>>
modelVars == <<_MODEL_CANDIDATES, _SELECTED_MODEL>>
chatVars == <<ai_pc, has_parts, client, models, tried, last_err, chat_result>>
aiVars == <<keyVars, _OPENAI_CLIENT_CACHE, modelVars, gemini_configured, chatVars>>

vars == <<scoreVars, dataVars, callVars, appVars, apiVars, geoVars, aiVars>>


----------------------------------------------------------------------------
(* Optional values *)

None == <<>>
Some(x) == <<x>>
Val(o) == o[1]

----------------------------------------------------------------------------
(* Exact rational arithmetic standing for Python's float arithmetic *)

Abs(i) == IF i < 0 THEN -i ELSE i

RECURSIVE Gcd(_, _)
Gcd(a, b) == IF b = 0 THEN a ELSE Gcd(b, a % b)

\* the rational n/d (d # 0) in lowest terms with a positive denominator
Rat(n, d) ==
    LET s == IF d < 0 THEN -1 ELSE 1
        g == Gcd(Abs(n), Abs(d))
    IN  [n |-> (s * n) \div g, d |-> (s * d) \div g]

R(i) == [n |-> i, d |-> 1]
RAdd(a, b) == Rat(a.n * b.d + b.n * a.d, a.d * b.d)
RSub(a, b) == Rat(a.n * b.d - b.n * a.d, a.d * b.d)
RMul(a, b) == Rat(a.n * b.n, a.d * b.d)
RDiv(a, b) == Rat(a.n * b.d, a.d * b.n)
RLt(a, b) == a.n * b.d < b.n * a.d
RLe(a, b) == a.n * b.d <= b.n * a.d
RMin(a, b) == IF RLt(b, a) THEN b ELSE a
RAbs(a) == [n |-> Abs(a.n), d |-> a.d]

\* Python's round(x) of a float: the nearest integer, a tie going to the even one
PyRound(a) ==
    LET q == a.n \div a.d
        r == a.n % a.d
    IN  IF 2 * r < a.d THEN q
        ELSE IF 2 * r > a.d THEN q + 1
        ELSE IF q % 2 = 0 THEN q ELSE q + 1

IMin(a, b) == IF b < a THEN b ELSE a
IMax(a, b) == IF b > a THEN b ELSE a

----------------------------------------------------------------------------
(* src/utils/scoring.py *)

MSG_SAFE == "Safe for parade"
MSG_CAUTION == "Caution, keep backup"
MSG_RISKY == "Risky, expect issues"

SUG_INDOOR_BACKUP == "Consider indoor backup"
SUG_EVENING == "Better for evening/night events"
SUG_INDOOR_ALT == "Outdoor risky, try indoor"
SUG_OUTDOOR == "Great for outdoor events"

\* rain_penalty = min(forecast['rain_probability'] * 0.5, 50)
rain_penalty(forecast) ==
    RMin(RMul(forecast.rain_probability, Rat(1, 2)), R(50))

\* the if / elif / else on forecast['temp'] against the 20..32 band
temp_penalty(forecast) ==
    IF RLt(forecast.temp, R(20))
    THEN RMin(RMul(RSub(R(20), forecast.temp), R(2)), R(30))
    ELSE IF RLt(R(32), forecast.temp)
    THEN RMin(RMul(RSub(forecast.temp, R(32)), R(2)), R(30))
    ELSE R(0)

\* mutant: the difference taken without abs()
hist_penalty_no_abs(forecast, historical) ==
    LET temp_diff == RSub(forecast.temp, historical.avg_temp_c)
    IN  RMin(RMul(temp_diff, R(2)), R(20))

\* mutant: the historical mean rainfall added to the deviation
hist_penalty_rainfall(forecast, historical) ==
    LET temp_diff == RAbs(RSub(forecast.temp, historical.avg_temp_c))
    IN  RMin(RAdd(RMul(temp_diff, R(2)), historical.avg_rainfall_mm), R(20))

\* temp_diff = abs(temp - avg_temp_c); hist_penalty = min(temp_diff * 2, 20)
hist_penalty(forecast, historical) ==
    LET temp_diff == RAbs(RSub(forecast.temp, historical.avg_temp_c))
    IN  RMin(RMul(temp_diff, R(2)), R(20))

\* mutant: the upper clamp left out
clamp_score_no_upper(score) == IMax(0, PyRound(score))

\* score = max(0, min(100, round(score)))
clamp_score(score) == IMax(0, IMin(100, PyRound(score)))

\* mutant: the first threshold inclusive
score_message_ge70(score) ==
    IF score >= 70 THEN MSG_SAFE
    ELSE IF score >= 40 THEN MSG_CAUTION
    ELSE MSG_RISKY

\* the if / elif / else on the final score
score_message(score) ==
    IF score > 70 THEN MSG_SAFE
    ELSE IF score >= 40 THEN MSG_CAUTION
    ELSE MSG_RISKY

parade_suitability_score(forecast, historical) ==
    LET s0 == R(100)
        s1 == RSub(s0, rain_penalty(forecast))
        s2 == RSub(s1, temp_penalty(forecast))
        s3 == RSub(s2, hist_penalty(forecast, historical))
        score == clamp_score(s3)
    IN  [score |-> score, message |-> score_message(score)]

\* mutant: the temperature rule tried before the rain rule
get_event_suggestion_temp_first(forecast) ==
    IF RLt(R(35), forecast.temp) THEN SUG_EVENING
    ELSE IF RLt(R(50), forecast.rain_probability) THEN SUG_INDOOR_BACKUP
    ELSE IF RLt(R(30), forecast.wind_speed) THEN SUG_INDOOR_ALT
    ELSE SUG_OUTDOOR

get_event_suggestion(forecast) ==
    IF RLt(R(50), forecast.rain_probability) THEN SUG_INDOOR_BACKUP
    ELSE IF RLt(R(35), forecast.temp) THEN SUG_EVENING
    ELSE IF RLt(R(30), forecast.wind_speed) THEN SUG_INDOOR_ALT
    ELSE SUG_OUTDOOR

----------------------------------------------------------------------------
(* Python str: sequences of characters, compared by code point *)

\* the characters the model uses, in ascending code-point order
Chars ==
    <<" ", "-", "0", "1", "2", "3", "4", "5", "6", "7", "8", "9", ":",
    "A", "B", "C", "D", "E", "F", "G", "H", "I", "J", "K", "L", "M",
    "N", "O", "P", "Q", "R", "S", "T", "U", "V", "W", "X", "Y", "Z",
    "a", "b", "c", "d", "e", "f", "g", "h", "i", "j", "k", "l", "m",
    "n", "o", "p", "q", "r", "s", "t", "u", "v", "w", "x", "y", "z">>

Ord == [c \in {Chars[i] : i \in 1..Len(Chars)} |->
           CHOOSE i \in 1..Len(Chars) : Chars[i] = c]

\* a < b for two str (lexicographic by code point, a proper prefix first)
RECURSIVE StrLt(_, _)
StrLt(a, b) ==
    IF b = <<>> THEN FALSE
    ELSE IF a = <<>> THEN TRUE
    ELSE IF Head(a) # Head(b) THEN Ord[Head(a)] < Ord[Head(b)]
    ELSE StrLt(Tail(a), Tail(b))

\* s.startswith(p)
StartsWith(s, p) == Len(p) <= Len(s) /\ SubSeq(s, 1, Len(p)) = p

\* s.endswith(p)
EndsWith(s, p) ==
    Len(p) <= Len(s) /\ SubSeq(s, Len(s) - Len(p) + 1, Len(s)) = p

\* the longest prefix of s without a blank
RECURSIVE WordPrefix(_)
WordPrefix(s) ==
    IF s = <<>> \/ Head(s) = " " THEN <<>>
    ELSE <<Head(s)>> \o WordPrefix(Tail(s))

\* s.split()[0]: the first run of non-blank characters of s
RECURSIVE FirstWord(_)
FirstWord(s) ==
    IF s # <<>> /\ Head(s) = " " THEN FirstWord(Tail(s)) ELSE WordPrefix(s)

----------------------------------------------------------------------------
(* src/utils/helpers.py: WEATHER_EMOJI_MAP *)

L_Clear == <<"C", "l", "e", "a", "r">>
L_Clouds == <<"C", "l", "o", "u", "d", "s">>
L_Rain == <<"R", "a", "i", "n">>
L_Drizzle == <<"D", "r", "i", "z", "z", "l", "e">>
L_Thunderstorm == <<"T", "h", "u", "n", "d", "e", "r", "s", "t", "o", "r", "m">>
L_Snow == <<"S", "n", "o", "w">>
L_Mist == <<"M", "i", "s", "t">>
L_Smoke == <<"S", "m", "o", "k", "e">>
L_Haze == <<"H", "a", "z", "e">>
L_Dust == <<"D", "u", "s", "t">>
L_Fog == <<"F", "o", "g">>
L_Sand == <<"S", "a", "n", "d">>
L_Ash == <<"A", "s", "h">>
L_Squall == <<"S", "q", "u", "a", "l", "l">>
L_Tornado == <<"T", "o", "r", "n", "a", "d", "o">>

DAY == "day"
NIGHT == "night"
GLYPH_DEFAULT == "sun"

\* the table's entries: key (condition, phase), value the glyph
WEATHER_EMOJI_MAP ==
    {<<L_Clear, DAY, "sun">>,
     <<L_Clear, NIGHT, "full_moon">>,
     <<L_Clouds, DAY, "cloud">>,
     <<L_Clouds, NIGHT, "cloud">>,
     <<L_Rain, DAY, "rain_cloud">>,
     <<L_Rain, NIGHT, "rain_cloud">>,
     <<L_Drizzle, DAY, "sun_behind_rain_cloud">>,
     <<L_Drizzle, NIGHT, "replacement_character">>,
     <<L_Thunderstorm, DAY, "thunder_cloud">>,
     <<L_Thunderstorm, NIGHT, "thunder_cloud">>,
     <<L_Snow, DAY, "snowflake">>,
     <<L_Snow, NIGHT, "snowflake">>,
     <<L_Mist, DAY, "fog">>,
     <<L_Mist, NIGHT, "fog">>,
     <<L_Smoke, DAY, "fog">>,
     <<L_Smoke, NIGHT, "fog">>,
     <<L_Haze, DAY, "fog">>,
     <<L_Haze, NIGHT, "fog">>,
     <<L_Dust, DAY, "fog">>,
     <<L_Dust, NIGHT, "fog">>,
     <<L_Fog, DAY, "fog">>,
     <<L_Fog, NIGHT, "fog">>,
     <<L_Sand, DAY, "fog">>,
     <<L_Sand, NIGHT, "fog">>,
     <<L_Ash, DAY, "fog">>,
     <<L_Ash, NIGHT, "fog">>,
     <<L_Squall, DAY, "wind_face">>,
     <<L_Squall, NIGHT, "wind_face">>,
     <<L_Tornado, DAY, "tornado">>,
     <<L_Tornado, NIGHT, "tornado">>}

\* WEATHER_EMOJI_MAP.get((condition, phase), default)
EmojiGet(condition, phase, default) ==
    IF \E e \in WEATHER_EMOJI_MAP : e[1] = condition /\ e[2] = phase
    THEN (CHOOSE e \in WEATHER_EMOJI_MAP : e[1] = condition /\ e[2] = phase)[3]
    ELSE default

----------------------------------------------------------------------------
(* src/utils/helpers.py: process_forecast *)

\* forecasts = [f for f in data["list"] if f["dt_txt"].startswith(target_date)]
select_forecasts(fdata, target) ==
    SelectSeq(fdata.list, LAMBDA f : StartsWith(f.dt_txt, target))

\* mutant: a point without a 3-hour value counts 1
rain_chance_default_one(f) ==
    IF f.rain # None /\ Val(f.rain) # None THEN Val(Val(f.rain)) ELSE R(1)

\* the value appended to rain_chances for the point f.  f.rain is None when
\* the point has no "rain" key, Some(None) when the block has no "3h" key
rain_chance(f) ==
    IF f.rain # None /\ Val(f.rain) # None THEN Val(Val(f.rain)) ELSE R(0)

\* sum(xs): the left fold of + from 0
RECURSIVE SumFrom(_, _)
SumFrom(acc, xs) ==
    IF xs = <<>> THEN acc ELSE SumFrom(RAdd(acc, Head(xs)), Tail(xs))
PySum(xs) == SumFrom(R(0), xs)

\* mutant: floor division, sum(xs) // len(xs)
mean_floor_div(xs) == R(PySum(xs).n \div (PySum(xs).d * Len(xs)))

\* sum(xs) / len(xs)
mean(xs) == RDiv(PySum(xs), R(Len(xs)))

\* the descriptor {} of a point without weather entries
EmptyDescriptor == [main |-> None, description |-> None, icon |-> None]

\* w = (f.get('weather') or [{}])[0]
first_weather(f) ==
    IF f.weather = None \/ Val(f.weather) = <<>> THEN EmptyDescriptor
    ELSE Val(f.weather)[1]

\* the tuple (main, desc, 'day' if is_day else 'night') appended to details
detail(f) ==
    LET w == first_weather(f)
        main == IF w.main = None THEN L_Clear ELSE Val(w.main)
        desc == IF w.description = None THEN main ELSE Val(w.description)
        icon == IF w.icon = None THEN <<>> ELSE Val(w.icon)
        is_day == IF icon # <<>> THEN EndsWith(icon, <<"d">>) ELSE TRUE
    IN  <<main, desc, IF is_day THEN DAY ELSE NIGHT>>

\* cond_counts after the loop over the points: a dict label -> count
RECURSIVE count_conds(_, _)
count_conds(counts, details) ==
    IF details = <<>> THEN counts
    ELSE LET main == Head(details)[1]
             old == IF main \in DOMAIN counts THEN counts[main] ELSE 0
         IN  count_conds([l \in DOMAIN counts \cup {main} |->
                             IF l = main THEN old + 1 ELSE counts[l]],
                         Tail(details))

\* mutant: ties between equal counts go to the larger label
sort_key_lt_label_desc(x, y) ==
    \/ -x[2] < -y[2]
    \/ x[2] = y[2] /\ StrLt(y[1], x[1])

\* x sorts before y under key=lambda x: (-x[1], x[0])
sort_key_lt(x, y) ==
    \/ -x[2] < -y[2]
    \/ x[2] = y[2] /\ StrLt(x[1], y[1])

\* sorted(cond_counts.items(), key=...)[0][0], or 'Clear' for an empty dict
dominant_condition(counts) ==
    LET items == {<<l, counts[l]>> : l \in DOMAIN counts}
    IN  IF items # {}
        THEN (CHOOSE x \in items : \A y \in items : ~sort_key_lt(y, x))[1]
        ELSE L_Clear

\* mutant: the loop without its break, the last matching detail wins
RECURSIVE first_matching_no_break(_, _, _)
first_matching_no_break(details, dominant, chosen) ==
    IF details = <<>> THEN chosen
    ELSE IF Head(details)[1] = dominant
         THEN first_matching_no_break(Tail(details), dominant,
                                      <<Head(details)[2], Head(details)[3]>>)
         ELSE first_matching_no_break(Tail(details), dominant, chosen)

\* the loop that picks the first detail whose label is the dominant one;
\* chosen is the pair (chosen_desc, dayphase)
RECURSIVE first_matching(_, _, _)
first_matching(details, dominant, chosen) ==
    IF details = <<>> THEN chosen
    ELSE IF Head(details)[1] = dominant
         THEN <<Head(details)[2], Head(details)[3]>>
         ELSE first_matching(Tail(details), dominant, chosen)

\* the dict returned for a non-empty selection, given the dominant label and
\* the pair chosen = (chosen_desc, dayphase)
aggregate_dict(forecasts, dominant, chosen) ==
    LET n == Len(forecasts)
        temps == [i \in 1..n |-> forecasts[i].main.temp]
        humidity == [i \in 1..n |-> forecasts[i].main.humidity]
        wind == [i \in 1..n |-> forecasts[i].wind.speed]
        rain_chances == [i \in 1..n |-> rain_chance(forecasts[i])]
    IN  [avg_temp |-> mean(temps),
         avg_humidity |-> mean(humidity),
         avg_wind |-> mean(wind),
         total_rain |-> PySum(rain_chances),
         condition |-> dominant,
         condition_emoji |-> EmojiGet(dominant, chosen[2], GLYPH_DEFAULT),
         condition_desc |-> chosen[1],
         condition_dayphase |-> chosen[2]]

\* the second half of process_forecast, from cond_counts on
aggregate_with(forecasts, details, dominant) ==
    aggregate_dict(forecasts, dominant,
                   first_matching(details, dominant, <<dominant, DAY>>))

\* mutant: no early return for an empty selection, a default dict instead
aggregate_no_early_return(forecasts) ==
    IF forecasts = <<>>
    THEN Some([avg_temp |-> R(0), avg_humidity |-> R(0), avg_wind |-> R(0),
               total_rain |-> R(0), condition |-> L_Clear,
               condition_emoji |-> GLYPH_DEFAULT, condition_desc |-> L_Clear,
               condition_dayphase |-> DAY])
    ELSE LET details == [i \in 1..Len(forecasts) |-> detail(forecasts[i])]
         IN  Some(aggregate_with(forecasts, details,
                                 dominant_condition(count_conds(<<>>, details))))

\* process_forecast once forecasts is selected
aggregate(forecasts) ==
    IF forecasts = <<>> THEN None
    ELSE LET details == [i \in 1..Len(forecasts) |-> detail(forecasts[i])]
         IN  Some(aggregate_with(forecasts, details,
                                 dominant_condition(count_conds(<<>>, details))))

\* mutant: the rain total is kept between calls and added to the next one
process_forecast_carry(fdata, target) ==
    LET r == aggregate(select_forecasts(fdata, target))
    IN  IF r = None \/ op # "process_forecast" \/ weather = None THEN r
        ELSE Some([Val(r) EXCEPT
                     !.total_rain = RAdd(@, Val(weather).total_rain)])

process_forecast(fdata, target) == aggregate(select_forecasts(fdata, target))

----------------------------------------------------------------------------
(* datetime.strptime(s, '%Y-%m-%d') and the difference of two dates *)

Digits == {"0", "1", "2", "3", "4", "5", "6", "7", "8", "9"}
DigitVal(c) == Ord[c] - Ord["0"]

\* the index of the first "-" of s at or after position i, 0 when there is none
RECURSIVE FindDash(_, _)
FindDash(s, i) ==
    IF i > Len(s) THEN 0
    ELSE IF s[i] = "-" THEN i
    ELSE FindDash(s, i + 1)

\* %m matches 1[0-2] | 0[1-9] | [1-9]; None when t is none of these
month_field(t) ==
    IF Len(t) = 1 /\ t[1] \in Digits \ {"0"} THEN Some(DigitVal(t[1]))
    ELSE IF Len(t) = 2 /\ t[1] = "0" /\ t[2] \in Digits \ {"0"}
         THEN Some(DigitVal(t[2]))
    ELSE IF Len(t) = 2 /\ t[1] = "1" /\ t[2] \in {"0", "1", "2"}
         THEN Some(10 + DigitVal(t[2]))
    ELSE None

\* %d matches 3[01] | [12]\d | 0[1-9] | [1-9] | " "[1-9]; None otherwise
day_field(t) ==
    IF Len(t) = 1 /\ t[1] \in Digits \ {"0"} THEN Some(DigitVal(t[1]))
    ELSE IF Len(t) = 2 /\ t[1] \in {"0", " "} /\ t[2] \in Digits \ {"0"}
         THEN Some(DigitVal(t[2]))
    ELSE IF Len(t) = 2 /\ t[1] \in {"1", "2"} /\ t[2] \in Digits
         THEN Some(10 * DigitVal(t[1]) + DigitVal(t[2]))
    ELSE IF Len(t) = 2 /\ t[1] = "3" /\ t[2] \in {"0", "1"}
         THEN Some(30 + DigitVal(t[2]))
    ELSE None

IsLeap(y) == (y % 4 = 0 /\ y % 100 # 0) \/ y % 400 = 0

DaysInMonth(y, m) ==
    IF m = 2 THEN (IF IsLeap(y) THEN 29 ELSE 28)
    ELSE IF m \in {4, 6, 9, 11} THEN 30
    ELSE 31

\* the date of year y, month field m and day field d, None when a field did
\* not match or there is no such date
make_date(y, m, d) ==
    IF m = None \/ d = None THEN None
    ELSE IF y < 1 \/ Val(d) > DaysInMonth(y, Val(m)) THEN None
    ELSE Some(<<y, Val(m), Val(d)>>)

\* strptime(s, '%Y-%m-%d') given the index of the "-" that ends the month
strptime_at(s, dash) ==
    IF ~(Len(s) >= 5 /\ s[5] = "-" /\ \A i \in 1..4 : s[i] \in Digits)
       \/ dash = 0
    THEN None
    ELSE make_date(1000 * DigitVal(s[1]) + 100 * DigitVal(s[2])
                     + 10 * DigitVal(s[3]) + DigitVal(s[4]),
                   month_field(SubSeq(s, 6, dash - 1)),
                   day_field(SubSeq(s, dash + 1, Len(s))))

\* strptime(s, '%Y-%m-%d'): Some(<<year, month, day>>), or None where the
\* code gets a ValueError (no match, unconverted data, no such date)
strptime(s) == strptime_at(s, FindDash(s, 6))

\* the days of year y before the first of month m
RECURSIVE DaysBeforeMonth(_, _)
DaysBeforeMonth(y, m) ==
    IF m = 1 THEN 0
    ELSE DaysBeforeMonth(y, m - 1) + DaysInMonth(y, m - 1)

\* date.toordinal(): the day number of a date, 0001-01-01 being day 1
ToOrdinal(date) ==
    LET y == date[1] - 1
    IN  y * 365 + (y \div 4) - (y \div 100) + (y \div 400)
          + DaysBeforeMonth(date[1], date[2]) + date[3]

SecondsPerDay == 86400

\* mutant: the signed difference, without abs
abs_delta_seconds_signed(cur, tgt) == (ToOrdinal(cur) - ToOrdinal(tgt)) * SecondsPerDay

\* abs((cur - tgt).total_seconds()) of two midnights
abs_delta_seconds(cur, tgt) == Abs((ToOrdinal(cur) - ToOrdinal(tgt)) * SecondsPerDay)

----------------------------------------------------------------------------
(* src/utils/helpers.py: closest_forecast_day, process_forecast_with_fallback *)

\* sorted(S) of a set of str: the ascending sequence of its elements
RECURSIVE sorted(_)
sorted(S) ==
    IF S = {} THEN <<>>
    ELSE LET least == CHOOSE x \in S : \A y \in S : ~StrLt(y, x)
         IN  <<least>> \o sorted(S \ {least})

\* mutant: a day replaces best also when it is equally close
RECURSIVE closest_loop_last_wins(_, _, _, _)
closest_loop_last_wins(days, tgt, best, best_delta) ==
    IF days = <<>> THEN best
    ELSE LET d == Head(days)
             cur == strptime(d)
         IN  IF cur = None
             THEN closest_loop_last_wins(Tail(days), tgt, best, best_delta)
             ELSE LET delta == abs_delta_seconds(Val(cur), tgt)
                  IN  IF best_delta = None \/ delta <= Val(best_delta)
                      THEN closest_loop_last_wins(Tail(days), tgt, Some(d), Some(delta))
                      ELSE closest_loop_last_wins(Tail(days), tgt, best, best_delta)

\* mutant: a day that does not parse ends the loop with None
RECURSIVE closest_loop_abort(_, _, _, _)
closest_loop_abort(days, tgt, best, best_delta) ==
    IF days = <<>> THEN best
    ELSE LET d == Head(days)
             cur == strptime(d)
         IN  IF cur = None
             THEN None
             ELSE LET delta == abs_delta_seconds(Val(cur), tgt)
                  IN  IF best_delta = None \/ delta < Val(best_delta)
                      THEN closest_loop_abort(Tail(days), tgt, Some(d), Some(delta))
                      ELSE closest_loop_abort(Tail(days), tgt, best, best_delta)

\* the loop over days: best and best_delta start as None; a day that does
\* not parse is skipped; a day replaces best only when strictly closer
RECURSIVE closest_loop(_, _, _, _)
closest_loop(days, tgt, best, best_delta) ==
    IF days = <<>> THEN best
    ELSE LET d == Head(days)
             cur == strptime(d)
         IN  IF cur = None
             THEN closest_loop(Tail(days), tgt, best, best_delta)
             ELSE LET delta == abs_delta_seconds(Val(cur), tgt)
                  IN  IF best_delta = None \/ delta < Val(best_delta)
                      THEN closest_loop(Tail(days), tgt, Some(d), Some(delta))
                      ELSE closest_loop(Tail(days), tgt, best, best_delta)

\* mutant: no "target in days" test before the target is parsed
closest_among_no_membership(days, target, tgt) ==
    IF tgt = None THEN None
    ELSE closest_loop(days, Val(tgt), None, None)

\* closest_forecast_day once days is computed
closest_among(days, target, tgt) ==
    IF \E i \in 1..Len(days) : days[i] = target THEN Some(target)
    ELSE IF tgt = None THEN None
    ELSE closest_loop(days, Val(tgt), None, None)

\* fdata is a dict with a "list" key; the result is Some(date string) or None
closest_forecast_day(fdata, target) ==
    IF fdata.list = <<>> THEN None
    ELSE closest_among(
             sorted({FirstWord(fdata.list[i].dt_txt) : i \in 1..Len(fdata.list)}),
             target, strptime(target))

\* process_forecast_with_fallback after closest_forecast_day has returned
fallback_with(fdata, target, closest) ==
    IF closest = None \/ closest = Some(target)
    THEN [result |-> None, used_date |-> target, substituted |-> FALSE]
    ELSE [result |-> process_forecast(fdata, Val(closest)),
          used_date |-> Val(closest), substituted |-> TRUE]

\* process_forecast_with_fallback after the first process_forecast has returned
fallback_after(fdata, target, primary) ==
    IF primary # None
    THEN [result |-> primary, used_date |-> target, substituted |-> FALSE]
    ELSE fallback_with(fdata, target, closest_forecast_day(fdata, target))

\* the tuple (result, used_date, substituted)
process_forecast_with_fallback(fdata, target) ==
    fallback_after(fdata, target, process_forecast(fdata, target))

----------------------------------------------------------------------------
(* SpecScore: the scorer and the selector called on inputs of their own *)

TempLo == 2
TempHi == 48

RainProbs == {R(-20), R(0), R(50), R(51), R(70), R(90), R(120)}
Temps == {Rat(k, 2) : k \in (2 * TempLo)..(2 * TempHi)}
HistTemps == {R(15), R(25), Rat(61, 2)}
Humidities == {R(40), R(90)}
WindSpeeds == {R(30), Rat(61, 2)}
HistRainfalls == {R(0), R(5)}

ForecastInputs ==
    [rain_probability : RainProbs, temp : Temps,
     humidity : Humidities, wind_speed : WindSpeeds]
HistoricalInputs == [avg_rainfall_mm : HistRainfalls, avg_temp_c : HistTemps]

InitScore ==
    /\ forecast_input \in ForecastInputs
    /\ historical_input \in HistoricalInputs
    /\ result = None
    /\ suggestion = None
    /\ other_forecast = None
    /\ other_historical = None
    /\ other_result = None
    /\ data = None
    /\ target_date = <<>>
    /\ op = "none"
    /\ weather = None
    /\ used_date = None
    /\ substituted = FALSE
    /\ previous = None
    /\ pc = "idle"
    /\ flow = "none"
    /\ target_dt = <<>>
    /\ hist = None
    /\ steps = <<>>
    /\ display = <<>>
    /\ secrets = None
    /\ environ = None
    /\ service = "none"
    /\ requests = <<>>
    /\ returned = None
    /\ exception = FALSE
    /\ attempt = 0
    /\ attempts = <<>>
    /\ sleeps = <<>>
    /\ openai_secret = None
    /\ openai_env = None
    /\ now = 0
    /\ _OPENAI_CLIENT_CACHE = None
    /\ _MODEL_CANDIDATES = <<>>
    /\ _SELECTED_MODEL = None
    /\ gemini_configured = FALSE
    /\ ai_pc = "idle"
    /\ has_parts = FALSE
    /\ client = None
    /\ models = <<>>
    /\ tried = <<>>
    /\ last_err = None
    /\ chat_result = None

\* result = parade_suitability_score(forecast_input, historical_input)
CallScore ==
    /\ result = None
    /\ result' = Some(parade_suitability_score(forecast_input, historical_input))
    /\ UNCHANGED <<forecast_input, historical_input, suggestion,
                   other_forecast, other_historical, other_result>>
    /\ UNCHANGED <<dataVars, callVars, appVars, apiVars, geoVars, aiVars>>

\* suggestion = get_event_suggestion(forecast_input)
CallSuggest ==
    /\ suggestion = None
    /\ suggestion' = Some(get_event_suggestion(forecast_input))
    /\ UNCHANGED <<forecast_input, historical_input, result,
                   other_forecast, other_historical, other_result>>
    /\ UNCHANGED <<dataVars, callVars, appVars, apiVars, geoVars, aiVars>>

\* a second call of the scorer, on dicts that differ from the first ones in
\* the humidity, the wind speed and the historical mean rainfall only
CallScoreOther(h, w, r) ==
    /\ result # None
    /\ suggestion # None
    /\ other_result = None
    /\ LET f == [forecast_input EXCEPT !.humidity = h, !.wind_speed = w]
           hi == [historical_input EXCEPT !.avg_rainfall_mm = r]
       IN  /\ other_forecast' = Some(f)
           /\ other_historical' = Some(hi)
           /\ other_result' = Some(parade_suitability_score(f, hi))
    /\ UNCHANGED <<forecast_input, historical_input, result, suggestion>>
    /\ UNCHANGED <<dataVars, callVars, appVars, apiVars, geoVars, aiVars>>

NextScore ==
    \/ CallScore
    \/ CallSuggest
    \/ \E h \in Humidities, w \in WindSpeeds, r \in HistRainfalls :
          CallScoreOther(h, w, r)

SpecScore == InitScore /\ [][NextScore]_vars

----------------------------------------------------------------------------
(* Claims about the scorer and the selector, checked under SpecScore *)

\* C1: whenever parade_suitability_score returns, the score is an integer
\* with 0 <= score <= 100.
Thm_C1_ScoreInRange ==
    /\ result # None => Val(result).score \in 0..100
    /\ other_result # None => Val(other_result).score \in 0..100

\* a call whose running total exceeds 100 before the clamp (negative rain value)
Wit_C1_ClampActs ==
    /\ result # None
    /\ RLt(forecast_input.rain_probability, R(0))
    /\ forecast_input.temp = R(25)
    /\ historical_input.avg_temp_c = R(25)
    /\ Val(result).score = 100

\* the three penalties and the final score, as the claim states them
ClaimRainPenalty(rp) == RMin(RDiv(rp, R(2)), R(50))
ClaimTempDistance(t) ==
    IF RLt(t, R(20)) THEN RSub(R(20), t)
    ELSE IF RLt(R(32), t) THEN RSub(t, R(32))
    ELSE R(0)
ClaimTempPenalty(t) ==
    IF RLe(R(20), t) /\ RLe(t, R(32)) THEN R(0)
    ELSE RMin(RMul(R(2), ClaimTempDistance(t)), R(30))
ClaimHistPenalty(t, a) == RMin(RMul(R(2), RAbs(RSub(t, a))), R(20))
ClaimRaw(rp, t, a) ==
    RSub(RSub(RSub(R(100), ClaimRainPenalty(rp)), ClaimTempPenalty(t)),
         ClaimHistPenalty(t, a))
\* k is an integer nearest to the rational x
IsNearest(k, x) == 2 * Abs(k * x.d - x.n) <= x.d
ClaimClamp(k) == IF k < 0 THEN 0 ELSE IF k > 100 THEN 100 ELSE k
\* s is x rounded to a nearest integer and then clamped to [0, 100]
IsRoundedClamped(s, x) ==
    \E k \in {x.n \div x.d, (x.n \div x.d) + 1} :
        IsNearest(k, x) /\ s = ClaimClamp(k)
IsClaimScore(s, rp, t, a) == IsRoundedClamped(s, ClaimRaw(rp, t, a))

\* C2: the score is 100 minus the rain penalty min(rain_probability/2, 50),
\* the temperature penalty (0 inside 20..32, else min(2 * distance, 30)) and
\* the historical penalty min(2 * |temp - avg_temp_c|, 20), clamped to
\* [0,100] and rounded to the nearest integer; (0,25,25) gives 100,
\* (90,25,25) gives 55, temp 40 with avg_temp_c 25 gives penalties 16 and 20.
Thm_C2_ScoreFormula ==
    result # None =>
        LET rp == forecast_input.rain_probability
            t == forecast_input.temp
            a == historical_input.avg_temp_c
            s == Val(result).score
        IN  /\ IsClaimScore(s, rp, t, a)
            /\ (rp = R(0) /\ t = R(25) /\ a = R(25)) => s = 100
            /\ (rp = R(90) /\ t = R(25) /\ a = R(25)) => s = 55
            /\ (t = R(40) /\ a = R(25)) =>
                  /\ temp_penalty(forecast_input) = R(16)
                  /\ hist_penalty(forecast_input, historical_input) = R(20)
                  /\ IsRoundedClamped(s,
                         RSub(R(100 - 16 - 20), ClaimRainPenalty(rp)))

Wit_C2_Examples ==
    /\ result # None
    /\ forecast_input.rain_probability = R(90)
    /\ forecast_input.temp = R(25)
    /\ historical_input.avg_temp_c = R(25)
    /\ Val(result).score = 55

\* C3: the message is decided by the final score alone: favorable exactly
\* when score > 70, cautionary exactly when 40 <= score <= 70, unfavorable
\* exactly when score < 40, and every score gets exactly one of the three.
Thm_C3_MessageByScore ==
    result # None =>
        LET s == Val(result).score
            m == Val(result).message
        IN  /\ m \in {MSG_SAFE, MSG_CAUTION, MSG_RISKY}
            /\ (m = MSG_SAFE) <=> (s > 70)
            /\ (m = MSG_CAUTION) <=> (40 <= s /\ s <= 70)
            /\ (m = MSG_RISKY) <=> (s < 40)

Wit_C3_Boundary70 ==
    /\ result # None
    /\ Val(result).score = 70
    /\ Val(result).message = MSG_CAUTION

\* C4: get_event_suggestion applies its rules in order and the first match
\* wins: rain_probability > 50 gives indoor backup whatever temp and wind
\* are; otherwise temp > 35 gives evening/night whatever wind is; otherwise
\* wind_speed > 30 gives the indoor alternative; otherwise outdoor.
Thm_C4_RuleOrder ==
    suggestion # None =>
        LET rp == forecast_input.rain_probability
            t == forecast_input.temp
            w == forecast_input.wind_speed
            g == Val(suggestion)
        IN  /\ RLt(R(50), rp) => g = SUG_INDOOR_BACKUP
            /\ (RLe(rp, R(50)) /\ RLt(R(35), t)) => g = SUG_EVENING
            /\ (RLe(rp, R(50)) /\ RLe(t, R(35)) /\ RLt(R(30), w))
                  => g = SUG_INDOOR_ALT
            /\ (RLe(rp, R(50)) /\ RLe(t, R(35)) /\ RLe(w, R(30)))
                  => g = SUG_OUTDOOR

\* all three rules match and the rain rule wins
Wit_C4_RainWins ==
    /\ suggestion # None
    /\ RLt(R(50), forecast_input.rain_probability)
    /\ RLt(R(35), forecast_input.temp)
    /\ RLt(R(30), forecast_input.wind_speed)
    /\ Val(suggestion) = SUG_INDOOR_BACKUP

\* C6: two calls of the scorer that agree on rain_probability, temp and
\* avg_temp_c return the same score and message, whatever the humidity, the
\* wind speed and the historical mean rainfall of each call are.
Thm_C6_IgnoredInputs ==
    (/\ result # None
     /\ other_result # None
     /\ Val(other_forecast).rain_probability = forecast_input.rain_probability
     /\ Val(other_forecast).temp = forecast_input.temp
     /\ Val(other_historical).avg_temp_c = historical_input.avg_temp_c)
    => Val(other_result) = Val(result)

\* the second call differs from the first in all three ignored inputs
Wit_C6_AllThreeDiffer ==
    /\ result # None
    /\ other_result # None
    /\ Val(other_forecast).humidity # forecast_input.humidity
    /\ Val(other_forecast).wind_speed # forecast_input.wind_speed
    /\ Val(other_historical).avg_rainfall_mm # historical_input.avg_rainfall_mm
    /\ Val(other_result) = Val(result)

----------------------------------------------------------------------------
(* The forecast responses and target strings the functions are called on *)

D_0101 == <<"2", "0", "2", "5", "-", "0", "1", "-", "0", "1">>
D_0102 == <<"2", "0", "2", "5", "-", "0", "1", "-", "0", "2">>
D_0103 == <<"2", "0", "2", "5", "-", "0", "1", "-", "0", "3">>
D_0104 == <<"2", "0", "2", "5", "-", "0", "1", "-", "0", "4">>
D_0110 == <<"2", "0", "2", "5", "-", "0", "1", "-", "1", "0">>
D_0230 == <<"2", "0", "2", "5", "-", "0", "2", "-", "3", "0">>
\* a proper prefix of D_0110, which strptime reads as 2025-01-01
D_011 == <<"2", "0", "2", "5", "-", "0", "1", "-", "1">>
T_0000 == <<" ", "0", "0", ":", "0", "0", ":", "0", "0">>
T_1200 == <<" ", "1", "2", ":", "0", "0", ":", "0", "0">>
T_1500 == <<" ", "1", "5", ":", "0", "0", ":", "0", "0">>
T_2100 == <<" ", "2", "1", ":", "0", "0", ":", "0", "0">>

\* a clear night, no rain block
PointA ==
    [dt_txt |-> D_0101 \o T_0000,
     main |-> [temp |-> R(20), humidity |-> R(40)],
     wind |-> [speed |-> R(3)],
     rain |-> None,
     weather |-> Some(<<[main |-> Some(L_Clear), description |-> Some(<<"c", "l", "e", "a", "r", " ", "s", "k", "y">>),
           icon |-> Some(<<"0", "1", "n">>)]>>)]

\* light rain by day, 2.5 mm
PointB ==
    [dt_txt |-> D_0101 \o T_1200,
     main |-> [temp |-> Rat(51, 2), humidity |-> R(65)],
     wind |-> [speed |-> R(8)],
     rain |-> Some(Some(Rat(5, 2))),
     weather |-> Some(<<[main |-> Some(L_Rain), description |-> Some(<<"l", "i", "g", "h", "t", " ", "r", "a", "i", "n">>),
           icon |-> Some(<<"1", "0", "d">>)]>>)]

\* clouds, no description, no icon, a rain block without a 3h value
PointC ==
    [dt_txt |-> D_0101 \o T_1500,
     main |-> [temp |-> R(30), humidity |-> R(50)],
     wind |-> [speed |-> R(35)],
     rain |-> Some(None),
     weather |-> Some(<<[main |-> Some(L_Clouds), description |-> None,
           icon |-> None]>>)]

\* heavy rain by night, 6 mm
PointD ==
    [dt_txt |-> D_0101 \o T_2100,
     main |-> [temp |-> R(38), humidity |-> R(81)],
     wind |-> [speed |-> R(5)],
     rain |-> Some(Some(R(6))),
     weather |-> Some(<<[main |-> Some(L_Rain), description |-> Some(<<"h", "e", "a", "v", "y", " ", "r", "a", "i", "n">>),
           icon |-> Some(<<"1", "0", "n">>)]>>)]

\* another date, no weather key, 0 mm
PointE ==
    [dt_txt |-> D_0110 \o T_1200,
     main |-> [temp |-> R(12), humidity |-> R(30)],
     wind |-> [speed |-> R(2)],
     rain |-> Some(Some(R(0))),
     weather |-> None]

\* a third date, an empty weather list
PointF ==
    [dt_txt |-> D_0103 \o T_0000,
     main |-> [temp |-> R(37), humidity |-> R(55)],
     wind |-> [speed |-> R(33)],
     rain |-> None,
     weather |-> Some(<<>>)]

\* a timestamp whose date part is no calendar date
PointG ==
    [dt_txt |-> D_0230 \o T_1200,
     main |-> [temp |-> R(18), humidity |-> R(70)],
     wind |-> [speed |-> R(4)],
     rain |-> Some(Some(R(1))),
     weather |-> Some(<<[main |-> Some(L_Snow), description |-> None,
                        icon |-> Some(<<"1", "3", "d">>)]>>)]

Points == {PointA, PointB, PointC, PointD, PointE, PointF, PointG}

\* the longest "list" of a forecast response
MaxPoints == 4

RECURSIVE SeqsUpTo(_, _)
SeqsUpTo(S, n) ==
    IF n = 0 THEN {<<>>}
    ELSE LET shorter == SeqsUpTo(S, n - 1)
         IN  shorter \cup {Append(q, x) : q \in shorter, x \in S}

Responses == {[list |-> l] : l \in SeqsUpTo(Points, MaxPoints)}

\* target strings: dates with points, dates without, a prefix of a date, and
\* a string that is no date
Targets == {D_0101, D_0110, D_0104, D_0102, D_011, D_0230}

----------------------------------------------------------------------------
(* Spec: process_forecast, closest_forecast_day and                        *)
(* process_forecast_with_fallback called on a forecast response.  The call *)
(* variables describe the last call only.                                  *)

Init ==
    /\ data \in {Some(r) : r \in Responses}
    /\ target_date = <<>>
    /\ op = "none"
    /\ weather = None
    /\ used_date = None
    /\ substituted = FALSE
    /\ previous = None
    /\ forecast_input = None
    /\ historical_input = None
    /\ result = None
    /\ suggestion = None
    /\ other_forecast = None
    /\ other_historical = None
    /\ other_result = None
    /\ pc = "idle"
    /\ flow = "none"
    /\ target_dt = <<>>
    /\ hist = None
    /\ steps = <<>>
    /\ display = <<>>
    /\ secrets = None
    /\ environ = None
    /\ service = "none"
    /\ requests = <<>>
    /\ returned = None
    /\ exception = FALSE
    /\ attempt = 0
    /\ attempts = <<>>
    /\ sleeps = <<>>
    /\ openai_secret = None
    /\ openai_env = None
    /\ now = 0
    /\ _OPENAI_CLIENT_CACHE = None
    /\ _MODEL_CANDIDATES = <<>>
    /\ _SELECTED_MODEL = None
    /\ gemini_configured = FALSE
    /\ ai_pc = "idle"
    /\ has_parts = FALSE
    /\ client = None
    /\ models = <<>>
    /\ tried = <<>>
    /\ last_err = None
    /\ chat_result = None

\* a first call takes any target; a later call reads the same target again
CanCall(t) == op = "none" \/ t = target_date

\* the call variables after a call of f on target t that returned the
\* aggregate w, the date string u and the flag s
Returned(f, t, w, u, s) ==
    /\ op' = f
    /\ target_date' = t
    /\ weather' = w
    /\ used_date' = u
    /\ substituted' = s
    /\ previous' = IF f = "process_forecast" /\ op = "process_forecast"
                   THEN Some(weather) ELSE None

\* mutant: the selection replaces data["list"] in place
ProcessForecast_filter_in_place(t) ==
    /\ CanCall(t)
    /\ Returned("process_forecast", t, process_forecast(Val(data), t), None, FALSE)
    /\ data' = Some([list |-> select_forecasts(Val(data), t)])
    /\ UNCHANGED <<scoreVars, appVars, apiVars, geoVars, aiVars>>

\* weather = process_forecast(data, t)
ProcessForecast(t) ==
    /\ CanCall(t)
    /\ Returned("process_forecast", t, process_forecast(Val(data), t), None, FALSE)
    /\ UNCHANGED <<scoreVars, dataVars, appVars, apiVars, geoVars, aiVars>>

\* used_date = closest_forecast_day(data, t)
ClosestForecastDay(t) ==
    /\ CanCall(t)
    /\ Returned("closest_forecast_day", t, None,
                closest_forecast_day(Val(data), t), FALSE)
    /\ UNCHANGED <<scoreVars, dataVars, appVars, apiVars, geoVars, aiVars>>

\* the call variables after process_forecast_with_fallback returned the tuple r
ReturnedTuple(t, r) ==
    Returned("process_forecast_with_fallback", t,
             r.result, Some(r.used_date), r.substituted)

\* weather, used_date, substituted = process_forecast_with_fallback(data, t)
ProcessForecastWithFallback(t) ==
    /\ CanCall(t)
    /\ ReturnedTuple(t, process_forecast_with_fallback(Val(data), t))
    /\ UNCHANGED <<scoreVars, dataVars, appVars, apiVars, geoVars, aiVars>>

Next ==
    \E t \in Targets :
        \/ ProcessForecast(t)
        \/ ClosestForecastDay(t)
        \/ ProcessForecastWithFallback(t)

Spec == Init /\ [][Next]_vars

----------------------------------------------------------------------------
(* Claims about process_forecast, checked under Spec *)

\* the points of the response, and the date string of a point as the code
\* takes it elsewhere (dt_txt.split()[0])
PointsOf == Val(data).list
DateOf(f) == FirstWord(f.dt_txt)

\* the positions of the points process_forecast picks for the last target
SelectedIdx == {i \in 1..Len(PointsOf) : StartsWith(PointsOf[i].dt_txt, target_date)}

\* the positions of the points whose date string equals the last target
SameDateIdx == {i \in 1..Len(PointsOf) : DateOf(PointsOf[i]) = target_date}

\* C7: process_forecast aggregates exactly the points whose date string
\* equals the target date string, for every target string and every list:
\* no point of another date is included, no point of the target date is
\* left out.
Cex_C7_SelectsExactlyTargetDate ==
    op = "process_forecast" =>
        /\ select_forecasts(Val(data), target_date)
             = SelectSeq(PointsOf, LAMBDA f : DateOf(f) = target_date)
        /\ (weather # None) <=> (SameDateIdx # {})

\* C8: process_forecast returns None exactly when no point is selected for
\* the target date, and an aggregate it returns was computed from at least
\* one point, so that no mean is taken over zero points.
Thm_C8_NoneIffNoPoint ==
    op = "process_forecast" =>
        /\ (weather = None) <=> (SelectedIdx = {})
        /\ Len(target_date) = Len(D_0101) =>
              ((weather = None) <=> (SameDateIdx = {}))
        /\ weather # None =>
              /\ Cardinality(SelectedIdx) >= 1
              /\ Len(select_forecasts(Val(data), target_date)) >= 1

\* the response has points, none of them for the target
Wit_C8_PointsButNoneSelected ==
    /\ op = "process_forecast"
    /\ Len(PointsOf) >= 2
    /\ target_date = D_0104
    /\ weather = None

\* the sum of val[i] over the positions i in S
RECURSIVE SumOver(_, _)
SumOver(S, val) ==
    IF S = {} THEN R(0)
    ELSE LET i == CHOOSE x \in S : TRUE
         IN  RAdd(val[i], SumOver(S \ {i}, val))

\* the arithmetic mean of val over the non-empty set of positions S
MeanOver(S, val) == RDiv(SumOver(S, val), R(Cardinality(S)))

\* the 3-hour precipitation of a point, 0 when the point carries none
Precip3h(f) == IF f.rain = None \/ f.rain = Some(None) THEN R(0) ELSE f.rain[1][1]

\* C9: for a non-empty selection, avg_temp, avg_humidity and avg_wind are
\* the arithmetic means of the selected points' temperature, humidity and
\* wind speed, total_rain is the sum of their 3-hour precipitation, and a
\* single selected point yields its own values.
Thm_C9_MeansAndSum ==
    (op = "process_forecast" /\ weather # None) =>
        LET w == Val(weather)
            S == SelectedIdx
        IN  /\ w.avg_temp = MeanOver(S, [i \in S |-> PointsOf[i].main.temp])
            /\ w.avg_humidity = MeanOver(S, [i \in S |-> PointsOf[i].main.humidity])
            /\ w.avg_wind = MeanOver(S, [i \in S |-> PointsOf[i].wind.speed])
            /\ w.total_rain = SumOver(S, [i \in S |-> Precip3h(PointsOf[i])])
            /\ \A i \in S : S = {i} =>
                  /\ w.avg_temp = PointsOf[i].main.temp
                  /\ w.avg_humidity = PointsOf[i].main.humidity
                  /\ w.avg_wind = PointsOf[i].wind.speed
                  /\ w.total_rain = Precip3h(PointsOf[i])

\* two selected points of different temperatures next to an unselected one;
\* the mean 22.75 is neither of the two
Wit_C9_MeanOfTwo ==
    /\ op = "process_forecast"
    /\ weather # None
    /\ Cardinality(SelectedIdx) = 2
    /\ Len(PointsOf) = 3
    /\ Val(weather).avg_temp = Rat(91, 4)
    /\ Val(weather).total_rain = Rat(5, 2)

\* the condition label of a point, 'Clear' when it carries none
LabelOf(f) == detail(f)[1]

\* how many of the selected points carry the label l
CountOf(l) == Cardinality({i \in SelectedIdx : LabelOf(PointsOf[i]) = l})

\* C10: the dominant condition is the label with the highest occurrence
\* count among the selected points, and among several labels of the highest
\* count the lexicographically smallest (Clouds:2, Rain:2 give Clouds).
Thm_C10_DominantCondition ==
    (op = "process_forecast" /\ weather # None) =>
        LET dom == Val(weather).condition
            labels == {LabelOf(PointsOf[i]) : i \in SelectedIdx}
        IN  /\ dom \in labels
            /\ \A l \in labels : CountOf(l) <= CountOf(dom)
            /\ \A l \in labels :
                  (CountOf(l) = CountOf(dom) /\ l # dom) => StrLt(dom, l)
            /\ (labels = {L_Clouds, L_Rain} /\ CountOf(L_Clouds) = 2
                  /\ CountOf(L_Rain) = 2) => dom = L_Clouds

\* the tie of the claim's example, the first selected point being a Rain one
Wit_C10_TieCloudsRain ==
    /\ op = "process_forecast"
    /\ weather # None
    /\ CountOf(L_Clouds) = 2
    /\ CountOf(L_Rain) = 2
    /\ LabelOf(PointsOf[1]) = L_Rain
    /\ Val(weather).condition = L_Clouds

\* the selected positions whose point carries a 3-hour precipitation value
WithPrecipIdx ==
    {i \in SelectedIdx : PointsOf[i].rain # None /\ PointsOf[i].rain # Some(None)}

\* C11: a selected point with no rain block, or with a rain block that has
\* no 3-hour value, contributes exactly 0 to total_rain: the total is a
\* number and equals the sum over the other selected points alone.
Thm_C11_MissingPrecipIsZero ==
    (op = "process_forecast" /\ SelectedIdx # {}) =>
        /\ weather # None
        /\ DOMAIN Val(weather).total_rain = {"n", "d"}
        /\ Val(weather).total_rain =
              SumOver(WithPrecipIdx,
                      [i \in WithPrecipIdx |-> Val(Val(PointsOf[i].rain))])
        /\ WithPrecipIdx = {} => Val(weather).total_rain = R(0)

\* a point without a rain block and a point whose rain block has no 3-hour
\* value are selected together with a point of 2.5 mm
Wit_C11_BothKindsMissing ==
    /\ op = "process_forecast"
    /\ \E i \in SelectedIdx : PointsOf[i].rain = None
    /\ \E i \in SelectedIdx : PointsOf[i].rain = Some(None)
    /\ Cardinality(WithPrecipIdx) = 1
    /\ Val(weather).total_rain = Rat(5, 2)

----------------------------------------------------------------------------
(* Claims about closest_forecast_day, checked under Spec *)

\* the date strings that occur in the data
DataDates == {DateOf(PointsOf[i]) : i \in 1..Len(PointsOf)}

\* those of them that are calendar dates
ParsedDates == {d \in DataDates : strptime(d) # None}

\* the days between the date string d and the last target, both calendar dates
DaysApart(d) ==
    Abs(ToOrdinal(Val(strptime(d))) - ToOrdinal(Val(strptime(target_date))))

\* C12: closest_forecast_day returns the target date string unchanged
\* whenever at least one point of the data lies on that date.
Thm_C12_TargetPresent ==
    (op = "closest_forecast_day" /\ SameDateIdx # {}) =>
        used_date = Some(target_date)

\* the target's points come after points of an earlier date
Wit_C12_TargetAmongOthers ==
    /\ op = "closest_forecast_day"
    /\ target_date = D_0110
    /\ Len(PointsOf) >= 2
    /\ DateOf(PointsOf[1]) = D_0101
    /\ SameDateIdx # {}
    /\ used_date = Some(D_0110)

\* C13: when the target date has no points and the data is not empty, the
\* date returned occurs in the data and no date of the data is closer in
\* time to the target (2025-01-01 and 2025-01-10 with target 2025-01-04
\* give 2025-01-01).  Distances exist between calendar dates.
Thm_C13_NearestDate ==
    (/\ op = "closest_forecast_day"
     /\ SameDateIdx = {}
     /\ strptime(target_date) # None
     /\ ParsedDates # {}) =>
        /\ used_date # None
        /\ Val(used_date) \in ParsedDates
        /\ \A d \in ParsedDates : DaysApart(Val(used_date)) <= DaysApart(d)
        /\ (DataDates = {D_0101, D_0110} /\ target_date = D_0104) =>
              used_date = Some(D_0101)

\* the example of the claim: 3 days against 6
Wit_C13_ThreeAgainstSix ==
    /\ op = "closest_forecast_day"
    /\ DataDates = {D_0101, D_0110}
    /\ target_date = D_0104
    /\ used_date = Some(D_0101)

\* C14 as stated: closest_forecast_day returns None when the input has no
\* points, and when the target date or a candidate date from the data is
\* not a valid YYYY-MM-DD date.
Cex_C14_NoneOnAnyBadDate ==
    op = "closest_forecast_day" =>
        ((\/ PointsOf = <<>>
          \/ strptime(target_date) = None
          \/ ParsedDates # DataDates) => used_date = None)

\* C14: closest_forecast_day returns None exactly when the input has no
\* points, or the target is not a date of the data and either the target
\* is no valid date or no date of the data is one; a candidate that is no
\* valid date is passed over and the nearest of the others is returned, and
\* a target that occurs in the data is returned without being parsed.
Thm_C14_NoneCases ==
    op = "closest_forecast_day" =>
        /\ (used_date = None) <=>
              \/ PointsOf = <<>>
              \/ /\ target_date \notin DataDates
                 /\ (strptime(target_date) = None \/ ParsedDates = {})
        /\ (used_date # None /\ target_date \notin DataDates) =>
              Val(used_date) \in ParsedDates

\* a candidate that is no calendar date stands next to one that is, and
\* the valid target has no points
Wit_C14_BadCandidateSkipped ==
    /\ op = "closest_forecast_day"
    /\ target_date = D_0104
    /\ D_0230 \in DataDates
    /\ ParsedDates # {}
    /\ used_date # None
    /\ Val(used_date) # D_0230

\* the data with its points in the order p, a permutation of the positions
Reordered(p) == [list |-> [i \in 1..Len(PointsOf) |-> PointsOf[p[i]]]]

\* C23: of two dates of the data equally distant from the target,
\* closest_forecast_day returns the chronologically earlier one, and its
\* result is the same for every ordering of the points in the input list.
Thm_C23_TieAndOrder ==
    op = "closest_forecast_day" =>
        /\ \A p \in Permutations(1..Len(PointsOf)) :
              closest_forecast_day(Reordered(p), target_date) = used_date
        /\ (used_date # None /\ target_date \notin DataDates) =>
              \A d \in ParsedDates :
                  (d # Val(used_date) /\ DaysApart(d) = DaysApart(Val(used_date))) =>
                      ToOrdinal(Val(strptime(Val(used_date))))
                        < ToOrdinal(Val(strptime(d)))

\* 2025-01-01 and 2025-01-03 are one day from the target 2025-01-02 each,
\* and the later one comes first in the list
Wit_C23_TieEarlierWins ==
    /\ op = "closest_forecast_day"
    /\ target_date = D_0102
    /\ Len(PointsOf) >= 2
    /\ DateOf(PointsOf[1]) = D_0103
    /\ D_0101 \in DataDates
    /\ used_date = Some(D_0101)

----------------------------------------------------------------------------
(* Claims about process_forecast_with_fallback, checked under Spec *)

\* the aggregate of the points of the data whose date string is d
AggregateOfDate(d) ==
    aggregate(SelectSeq(PointsOf, LAMBDA f : DateOf(f) = d))

\* C15: process_forecast_with_fallback returns (result, used_date,
\* substituted) where: if the target date has points, result is the
\* target's aggregate, used_date the target and substituted False; if it
\* has none and a nearest date is found, substituted is True, used_date is
\* that nearest date, different from the target, and result is the non-None
\* aggregate of used_date; otherwise the triple is (None, target, False).
Cex_C15_FallbackTriple ==
    op = "process_forecast_with_fallback" =>
        LET nearest == closest_forecast_day(Val(data), target_date)
        IN  IF SameDateIdx # {}
            THEN /\ weather = AggregateOfDate(target_date)
                 /\ weather # None
                 /\ used_date = Some(target_date)
                 /\ ~substituted
            ELSE IF nearest # None
            THEN /\ substituted
                 /\ used_date = nearest
                 /\ used_date # Some(target_date)
                 /\ weather # None
                 /\ weather = AggregateOfDate(Val(used_date))
            ELSE /\ weather = None
                 /\ used_date = Some(target_date)
                 /\ ~substituted

FirstDominantIdx ==
    CHOOSE i \in SelectedIdx :
        /\ LabelOf(PointsOf[i]) = Val(weather).condition
        /\ \A j \in SelectedIdx :
              LabelOf(PointsOf[j]) = Val(weather).condition => i <= j

\* the descriptive text of a point: its description, else its label
TextOf(f) ==
    IF first_weather(f).description # None
    THEN Val(first_weather(f).description) ELSE LabelOf(f)

\* the icon code of a point is present and does not end in 'd'
IconSaysNight(f) ==
    /\ first_weather(f).icon # None
    /\ Val(first_weather(f).icon) # <<>>
    /\ Val(first_weather(f).icon)[Len(Val(first_weather(f).icon))] # "d"

\* C19: the aggregate's descriptive text and day/night phase are those of
\* the first selected point, in input order, whose label is the dominant
\* condition; the phase is night only when that point's icon code is
\* present and does not end in 'd'.
Thm_C19_FirstDominantPoint ==
    (op = "process_forecast" /\ weather # None) =>
        /\ Val(weather).condition_desc = TextOf(PointsOf[FirstDominantIdx])
        /\ Val(weather).condition_dayphase =
              IF IconSaysNight(PointsOf[FirstDominantIdx]) THEN NIGHT ELSE DAY
        /\ Val(weather).condition_dayphase \in {DAY, NIGHT}

\* the dominant label is not that of the first selected point, and the two
\* points that carry it differ in text and phase: the night one comes first
Wit_C19_LaterPointFirstMatch ==
    /\ op = "process_forecast"
    /\ weather # None
    /\ Val(weather).condition = L_Rain
    /\ \E i \in SelectedIdx : i < FirstDominantIdx
    /\ \E j \in SelectedIdx :
          /\ j > FirstDominantIdx
          /\ LabelOf(PointsOf[j]) = L_Rain
          /\ ~IconSaysNight(PointsOf[j])
    /\ Val(weather).condition_dayphase = NIGHT

----------------------------------------------------------------------------
(* src/app.py: the check-weather flow and compute_city_score *)

\* the decimal digit n as a character
DigitChar(n) == Chars[Ord["0"] + n]

\* date.strftime('%Y-%m-%d'): zero-padded year, month and day
strftime(dt) ==
    <<DigitChar(dt[1] \div 1000), DigitChar((dt[1] \div 100) % 10),
      DigitChar((dt[1] \div 10) % 10), DigitChar(dt[1] % 10), "-",
      DigitChar(dt[2] \div 10), DigitChar(dt[2] % 10), "-",
      DigitChar(dt[3] \div 10), DigitChar(dt[3] % 10)>>

\* mutant: the upper threshold inclusive
rain_prob_compare_ge5(total_rain) ==
    IF RLe(R(5), total_rain) THEN R(90)
    ELSE IF RLt(R(0), total_rain) THEN R(70)
    ELSE R(0)

\* mutant: light rain gives 50
rain_prob_main_light50(total_rain) ==
    IF RLt(R(5), total_rain) THEN R(90)
    ELSE IF RLt(R(0), total_rain) THEN R(50)
    ELSE R(0)

\* the check-weather flow: the if / elif / else on weather['total_rain']
rain_prob_main(total_rain) ==
    IF RLt(R(5), total_rain) THEN R(90)
    ELSE IF RLt(R(0), total_rain) THEN R(70)
    ELSE R(0)

\* compute_city_score: 90 if total_rain > 5 else 70 if total_rain > 0 else 0
rain_prob_compare(total_rain) ==
    IF RLt(R(5), total_rain) THEN R(90)
    ELSE IF RLt(R(0), total_rain) THEN R(70)
    ELSE R(0)

\* forecast_input of either flow, w being the aggregate and rp the rain value
\* (weather.get('avg_wind', 10) finds the key, the aggregate always has it)
forecast_input_of(w, rp) ==
    [rain_probability |-> rp, temp |-> w.avg_temp,
     humidity |-> w.avg_humidity, wind_speed |-> w.avg_wind]

\* the page with nothing on it: no notice, no result header, no share
\* text, no 5-day table, no comparison rows
EmptyDisplay ==
    [notice |-> None, header |-> None, share |-> None, table |-> None, rows |-> None]

\* mutant: no notice is shown
main_notice_never(r) == None

\* "if substituted: st.info(... closest available forecast for {used_date}
\* instead.)": the date named by the notice, None when there is no notice
main_notice(r) ==
    IF r.result # None /\ r.substituted THEN Some(<<r.used_date>>) ELSE None

\* st.subheader(f"Weather forecast for {city} on {date}:") of show_result,
\* called with used_date: the date in the header
show_result_label(used) == used

\* the date in shareText: `Today's Forecast - {city} {target_date}: ...`
share_text_label(target, used) == target

\* the payload's '_used_date' and '_substituted' entries
payload_of(used, subst) == [_used_date |-> used, _substituted |-> subst]

\* subs = [r for r in rows if r.get('_substituted')]; the dates named by
\* the st.info notice, None when subs is empty
compare_notice(rows) ==
    LET subs == SelectSeq(rows, LAMBDA r : r._substituted)
    IN  IF subs # <<>> THEN Some([i \in 1..Len(subs) |-> subs[i]._used_date])
        ELSE None

\* daily.keys(): the date strings of the entries in order of first appearance
RECURSIVE daily_keys(_, _)
daily_keys(entries, seen) ==
    IF entries = <<>> THEN seen
    ELSE LET d == FirstWord(Head(entries).dt_txt)
         IN  daily_keys(Tail(entries),
                        IF \E i \in 1..Len(seen) : seen[i] = d THEN seen
                        ELSE Append(seen, d))

\* cond_main = (entry.get('weather') or [{}])[0].get('main', 'Clear')
cond_main(entry) ==
    IF first_weather(entry).main = None THEN L_Clear
    ELSE Val(first_weather(entry).main)

\* freq after the loop over conds
RECURSIVE table_freq(_, _)
table_freq(freq, conds) ==
    IF conds = <<>> THEN freq
    ELSE LET c == Head(conds)
             old == IF c \in DOMAIN freq THEN freq[c] ELSE 0
         IN  table_freq([l \in DOMAIN freq \cup {c} |->
                            IF l = c THEN old + 1 ELSE freq[l]],
                        Tail(conds))

\* WEATHER_EMOJI_MAP.get(dominant, default) with the str dominant as the
\* key: the keys of the map are (label, phase) tuples, a str equals none of
\* them, and the lookup yields the default
EmojiGetByLabel(dominant, default) ==
    LET hits == {e \in WEATHER_EMOJI_MAP : <<e[1], e[2]>> = dominant}
    IN  IF hits # {} THEN (CHOOSE e \in hits : TRUE)[3] ELSE default

\* the row of the day d
table_row(entries, d) ==
    LET mine == SelectSeq(entries, LAMBDA e : FirstWord(e.dt_txt) = d)
        conds == [i \in 1..Len(mine) |-> cond_main(mine[i])]
        dominant == IF conds # <<>> THEN dominant_condition(table_freq(<<>>, conds))
                    ELSE L_Clear
    IN  [Date |-> d, dominant |-> dominant,
         emoji |-> EmojiGetByLabel(dominant, GLYPH_DEFAULT)]

\* rows of the 5-day table: one row for each of the first five days
forecast_table(fdata) ==
    LET keys == daily_keys(fdata.list, <<>>)
        days == SubSeq(keys, 1, IMin(5, Len(keys)))
    IN  [i \in 1..Len(days) |-> table_row(fdata.list, days[i])]

\* the longest "list" of a forecast response in the flows
MaxAppPoints == 3

AppResponses == {[list |-> l] : l \in SeqsUpTo(Points, MaxAppPoints)}

\* the dates a request asks for
AppDates == {<<2025, 1, 1>>, <<2025, 1, 4>>, <<2025, 1, 10>>}

\* what fetch_nasa_power_monthly_averages returns: the two means, each None
\* when the provider had no valid value
HistResults ==
    [avg_rainfall_mm : {Some(R(2)), None},
     avg_temperature_c : {Some(R(25)), Some(Rat(61, 2)), None}]

InitApp ==
    /\ pc = "idle"
    /\ flow = "none"
    /\ target_dt = <<>>
    /\ hist = None
    /\ steps = <<>>
    /\ display = EmptyDisplay
    /\ secrets = None
    /\ environ = None
    /\ service = "none"
    /\ requests = <<>>
    /\ returned = None
    /\ exception = FALSE
    /\ attempt = 0
    /\ attempts = <<>>
    /\ sleeps = <<>>
    /\ openai_secret = None
    /\ openai_env = None
    /\ now = 0
    /\ _OPENAI_CLIENT_CACHE = None
    /\ _MODEL_CANDIDATES = <<>>
    /\ _SELECTED_MODEL = None
    /\ gemini_configured = FALSE
    /\ ai_pc = "idle"
    /\ has_parts = FALSE
    /\ client = None
    /\ models = <<>>
    /\ tried = <<>>
    /\ last_err = None
    /\ chat_result = None
    /\ data = None
    /\ target_date = <<>>
    /\ op = "none"
    /\ weather = None
    /\ used_date = None
    /\ substituted = FALSE
    /\ previous = None
    /\ forecast_input = None
    /\ historical_input = None
    /\ result = None
    /\ suggestion = None
    /\ other_forecast = None
    /\ other_historical = None
    /\ other_result = None

\* "Check weather" pressed with a city and the target_dt dt
StartMain(dt) ==
    /\ pc = "idle"
    /\ pc' = "fetch"
    /\ flow' = "main"
    /\ target_dt' = dt
    /\ steps' = <<>>
    /\ display' = EmptyDisplay
    /\ UNCHANGED <<hist, scoreVars, dataVars, callVars, apiVars, geoVars, aiVars>>

\* compute_city_score(city_name, target_dt) entered with a city
StartCompare(dt) ==
    /\ pc = "idle"
    /\ pc' = "fetch"
    /\ flow' = "compare"
    /\ target_dt' = dt
    /\ steps' = <<>>
    /\ display' = EmptyDisplay
    /\ UNCHANGED <<hist, scoreVars, dataVars, callVars, apiVars, geoVars, aiVars>>

\* data = get_forecast(city); an exception leaves data = None, and
\* "if not data" ends the request
MainFetch(raised, response) ==
    /\ pc = "fetch" /\ flow = "main"
    /\ data' = IF raised THEN None ELSE response
    /\ pc' = IF raised \/ response = None THEN "done" ELSE "aggregate"
    /\ steps' = Append(steps, "fetch")
    /\ UNCHANGED <<flow, target_dt, hist, display, scoreVars, callVars, apiVars, geoVars, aiVars>>

\* data = cached_forecast(city_name); an exception returns the error pair,
\* a None response is kept
CompareFetch(raised, response) ==
    /\ pc = "fetch" /\ flow = "compare"
    /\ data' = IF raised THEN None ELSE response
    /\ pc' = IF raised THEN "done" ELSE "aggregate"
    /\ steps' = Append(steps, "fetch")
    /\ UNCHANGED <<flow, target_dt, hist, display, scoreVars, callVars, apiVars, geoVars, aiVars>>

\* mutant: the flow goes on to the historical fetch without an aggregate
Aggregated_no_weather_test(t, r) ==
    /\ Returned("process_forecast_with_fallback", t,
                r.result, Some(r.used_date), r.substituted)
    /\ pc' = "historical"

\* the flow after process_forecast_with_fallback returned the tuple r:
\* "if not weather" ends the request
Aggregated(t, r) ==
    /\ Returned("process_forecast_with_fallback", t,
                r.result, Some(r.used_date), r.substituted)
    /\ pc' = IF r.result = None THEN "done" ELSE "historical"

\* target_date = target_dt.strftime("%Y-%m-%d");
\* weather, used_date, substituted = process_forecast_with_fallback(data, target_date)
MainAggregate ==
    /\ pc = "aggregate" /\ flow = "main"
    /\ Aggregated(strftime(target_dt),
                  process_forecast_with_fallback(Val(data), strftime(target_dt)))
    /\ display' = [display EXCEPT !.notice =
                      main_notice(process_forecast_with_fallback(
                                      Val(data), strftime(target_dt)))]
    /\ steps' = Append(steps, "aggregate")
    /\ UNCHANGED <<flow, target_dt, hist, scoreVars, dataVars, apiVars, geoVars, aiVars>>

\* date_str = target_dt.strftime('%Y-%m-%d'); the same call, whose TypeError
\* on data = None is caught and returns the error pair
CompareAggregate ==
    /\ pc = "aggregate" /\ flow = "compare"
    /\ IF data = None
       THEN /\ pc' = "done"
            /\ UNCHANGED callVars
       ELSE Aggregated(strftime(target_dt),
                       process_forecast_with_fallback(Val(data), strftime(target_dt)))
    /\ steps' = Append(steps, "aggregate")
    /\ UNCHANGED display
    /\ UNCHANGED <<flow, target_dt, hist, scoreVars, dataVars, apiVars, geoVars, aiVars>>

\* hist = fetch_nasa_power_monthly_averages(...), None when it raised; then
\* show_result(city, used_date, weather)
MainHistorical(raised, h) ==
    /\ pc = "historical" /\ flow = "main"
    /\ hist' = IF raised THEN None ELSE Some(h)
    /\ pc' = "score"
    /\ steps' = Append(steps, "historical")
    /\ display' = [display EXCEPT !.header = Some(show_result_label(Val(used_date)))]
    /\ UNCHANGED <<flow, target_dt, scoreVars, dataVars, callVars, apiVars, geoVars, aiVars>>

\* hist = cached_nasa(...), None when it raised
CompareHistorical(raised, h) ==
    /\ pc = "historical" /\ flow = "compare"
    /\ hist' = IF raised THEN None ELSE Some(h)
    /\ pc' = "score"
    /\ steps' = Append(steps, "historical")
    /\ UNCHANGED <<flow, target_dt, display, scoreVars, dataVars, callVars, apiVars, geoVars, aiVars>>

\* the two dicts are built and the scorer and the selector are called; the
\* scorer raises a TypeError on avg_temp_c = None, which nothing catches
Scored(f, avg_rainfall, avg_temp_c) ==
    /\ steps' = Append(steps, "score")
    /\ forecast_input' = Some(f)
    /\ historical_input' =
          Some([avg_rainfall_mm |-> avg_rainfall, avg_temp_c |-> avg_temp_c])
    /\ IF avg_temp_c = None
       THEN /\ pc' = "crashed"
            /\ UNCHANGED <<result, suggestion>>
       ELSE /\ pc' = "scored"
            /\ result' = Some(parade_suitability_score(f,
                            [avg_rainfall_mm |-> avg_rainfall,
                             avg_temp_c |-> Val(avg_temp_c)]))
            /\ suggestion' = Some(get_event_suggestion(f))

\* "if hist:" then rain_prob, forecast_input, historical_input, the scorer
\* and the selector, and the card with its copy/share text; without hist
\* nothing is scored and no card is built
MainScore ==
    /\ pc = "score" /\ flow = "main"
    /\ IF hist = None
       THEN /\ pc' = "unscored"
            /\ UNCHANGED <<forecast_input, historical_input, result, suggestion, steps>>
       ELSE Scored(forecast_input_of(Val(weather),
                                     rain_prob_main(Val(weather).total_rain)),
                   Val(hist).avg_rainfall_mm, Val(hist).avg_temperature_c)
    /\ display' = IF hist # None /\ Val(hist).avg_temperature_c # None
                  THEN [display EXCEPT !.share =
                           Some(share_text_label(target_date, Val(used_date)))]
                  ELSE display
    /\ UNCHANGED <<flow, target_dt, hist, dataVars, callVars, apiVars, geoVars, aiVars>>
    /\ UNCHANGED <<other_forecast, other_historical, other_result>>

\* rain_prob, forecast_input, historical_input (hist's values if hist, else
\* 0 and the forecast's own mean temperature), the scorer and the selector
CompareScore ==
    /\ pc = "score" /\ flow = "compare"
    /\ Scored(forecast_input_of(Val(weather),
                                rain_prob_compare(Val(weather).total_rain)),
              IF hist # None THEN Val(hist).avg_rainfall_mm ELSE Some(R(0)),
              IF hist # None THEN Val(hist).avg_temperature_c
              ELSE Some(Val(weather).avg_temp))
    /\ UNCHANGED display
    /\ UNCHANGED <<flow, target_dt, hist, dataVars, callVars, apiVars, geoVars, aiVars>>
    /\ UNCHANGED <<other_forecast, other_historical, other_result>>

\* the comparison page after compute_city_score returned a payload: the
\* table of rows and, for rows with _substituted, the fallback notice
CompareShow ==
    /\ pc = "scored" /\ flow = "compare"
    /\ pc' = "done"
    /\ display' = [display EXCEPT
                      !.rows = Some(<<payload_of(Val(used_date), substituted)>>),
                      !.notice = compare_notice(
                                     <<payload_of(Val(used_date), substituted)>>)]
    /\ UNCHANGED <<flow, target_dt, hist, steps, scoreVars, dataVars, callVars, apiVars, geoVars, aiVars>>

\* the 5-day forecast table of the check-weather page
MainTable ==
    /\ flow = "main"
    /\ pc = "scored" \/ pc = "unscored"
    /\ pc' = "done"
    /\ display' = [display EXCEPT !.table = Some(forecast_table(Val(data)))]
    /\ UNCHANGED <<flow, target_dt, hist, steps, scoreVars, dataVars, callVars, apiVars, geoVars, aiVars>>

NextApp ==
    \/ \E dt \in AppDates : StartMain(dt) \/ StartCompare(dt)
    \/ \E raised \in BOOLEAN, response \in {None} \cup {Some(r) : r \in AppResponses} :
          MainFetch(raised, response) \/ CompareFetch(raised, response)
    \/ MainAggregate
    \/ CompareAggregate
    \/ \E raised \in BOOLEAN, h \in HistResults :
          MainHistorical(raised, h) \/ CompareHistorical(raised, h)
    \/ MainScore
    \/ CompareScore
    \/ CompareShow
    \/ MainTable

SpecApp == InitApp /\ [][NextApp]_vars

----------------------------------------------------------------------------
(* Claims about the flows, checked under SpecApp *)

\* the value the three cases give for a total precipitation
ClaimRainProb(total) ==
    CASE total = R(0) -> R(0)
      [] RLt(R(0), total) /\ RLe(total, R(5)) -> R(70)
      [] RLt(R(5), total) -> R(90)
      [] OTHER -> R(-1)

\* C5: the rain-probability value handed to the scorer and to the selector
\* is one of 0, 70, 90: 0 when the aggregate's total precipitation is 0, 70
\* for any amount up to and including 5 mm, 90 above 5 mm; the check-weather
\* flow and the city-comparison flow derive the same value from the same
\* total.
Thm_C5_RainProbability ==
    forecast_input # None =>
        LET total == Val(weather).total_rain
            rp == Val(forecast_input).rain_probability
        IN  /\ rp = ClaimRainProb(total)
            /\ rp \in {R(0), R(70), R(90)}
            /\ rain_prob_main(total) = ClaimRainProb(total)
            /\ rain_prob_compare(total) = ClaimRainProb(total)
            /\ result # None =>
                  /\ Val(result) = parade_suitability_score(
                         forecast_input_of(Val(weather), ClaimRainProb(total)),
                         [avg_rainfall_mm |-> Val(historical_input).avg_rainfall_mm,
                          avg_temp_c |-> Val(Val(historical_input).avg_temp_c)])
                  /\ Val(suggestion) = get_event_suggestion(
                         forecast_input_of(Val(weather), ClaimRainProb(total)))

\* the comparison flow scored a day with exactly 5 mm
Wit_C5_ExactlyFiveMm ==
    /\ flow = "compare"
    /\ pc = "scored"
    /\ Val(weather).total_rain = R(5)
    /\ Val(forecast_input).rain_probability = R(70)

\* the steps of a request in the order of the chain
StepOrder == <<"fetch", "aggregate", "historical", "score">>

\* C20: within one request the steps run in the order forecast fetch,
\* aggregation, historical fetch, scoring: the historical fetch starts only
\* after aggregation returned an aggregate, the scorer is invoked only after
\* the historical fetch has finished, and a forecast fetch or an aggregation
\* that yields nothing is followed by no historical fetch and no scoring.
Thm_C20_StepOrder ==
    /\ Len(steps) <= Len(StepOrder)
    /\ steps = SubSeq(StepOrder, 1, Len(steps))
    /\ Len(steps) >= 3 => (data # None /\ weather # None)
    /\ (pc = "historical" \/ pc = "score") => weather # None
    /\ pc = "score" => Len(steps) = 3
    /\ forecast_input # None => steps = StepOrder
    /\ result # None => steps = StepOrder
    /\ (Len(steps) >= 1 /\ data = None) => Len(steps) <= 2
    /\ (Len(steps) >= 2 /\ weather = None) => Len(steps) = 2
    /\ (Len(steps) >= 2 /\ weather = None) => (hist = None /\ result = None)

\* a check-weather request ran all four steps and was scored
Wit_C20_FullChain ==
    /\ flow = "main"
    /\ pc = "scored"
    /\ steps = StepOrder
    /\ hist # None
    /\ result # None

\* a forecast result is on the page: the result header, the card with its
\* share text, or the comparison rows
ResultShown ==
    display.header # None \/ display.share # None \/ display.rows # None

\* C21: whenever a forecast result is shown that came from a substituted
\* date, the page carries a notice that names the date used, in the
\* check-weather flow and in the city-comparison flow alike.
Thm_C21_SubstitutionNotice ==
    (ResultShown /\ substituted) =>
        /\ display.notice # None
        /\ \E i \in 1..Len(Val(display.notice)) :
              Val(display.notice)[i] = Val(used_date)
        /\ Val(used_date) # target_date

\* the check-weather page shows the header of a substituted date
Wit_C21_MainSubstituted ==
    /\ flow = "main"
    /\ pc = "done"
    /\ substituted
    /\ display.header # None
    /\ display.notice = Some(<<Val(used_date)>>)

\* C22: in the check-weather flow every date label attached to forecast
\* metrics, in the result header and in the copy/share text, is used_date,
\* the date whose points were aggregated, also after a substitution.
Cex_C22_LabelsAreUsedDate ==
    flow = "main" =>
        /\ display.header # None => Val(display.header) = Val(used_date)
        /\ display.share # None => Val(display.share) = Val(used_date)

\* the glyphs the static table holds for the condition label l
GlyphsOf(l) == {e[3] : e \in {x \in WEATHER_EMOJI_MAP : x[1] = l}}

\* C26: each row of the 5-day table agrees with process_forecast for the
\* same date: the same dominant condition, and next to it the glyph the
\* static table maps that condition to, the default glyph only for a
\* condition without an entry.
Cex_C26_TableMatchesAggregator ==
    display.table # None =>
        \A i \in 1..Len(Val(display.table)) :
            LET row == Val(display.table)[i]
                agg == process_forecast(Val(data), row.Date)
            IN  /\ agg # None
                /\ row.dominant = Val(agg).condition
                /\ IF GlyphsOf(row.dominant) # {}
                   THEN row.emoji \in GlyphsOf(row.dominant)
                   ELSE row.emoji = GLYPH_DEFAULT

\* C24: in both flows, whenever the aggregate's total precipitation is
\* greater than 0 the rain probability is at least 70, the score is at most
\* 65, the message is not the favourable one and the suggestion is the
\* indoor-backup one; the temperature and wind rules of the selector are
\* reached only for days with zero precipitation.
Thm_C24_AnyRainDominates ==
    forecast_input # None =>
        /\ RLt(R(0), Val(weather).total_rain) =>
              /\ RLe(R(70), Val(forecast_input).rain_probability)
              /\ result # None =>
                    /\ Val(result).score <= 65
                    /\ Val(result).message # MSG_SAFE
                    /\ suggestion = Some(SUG_INDOOR_BACKUP)
        /\ (suggestion = Some(SUG_EVENING) \/ suggestion = Some(SUG_INDOOR_ALT)) =>
              Val(weather).total_rain = R(0)

\* a day with 2.5 mm of rain at 25.5 degrees on average, scored in the
\* comparison flow against the forecast's own mean: the highest score a
\* day with rain can get
Wit_C24_LightRainMildDay ==
    /\ flow = "compare"
    /\ hist = None
    /\ result # None
    /\ Val(weather).total_rain = Rat(5, 2)
    /\ Val(weather).avg_temp = Rat(51, 2)
    /\ Val(result).score = 65
    /\ suggestion = Some(SUG_INDOOR_BACKUP)

\* C25: the scorer is invoked only with a numeric historical mean
\* temperature: neither a historical result without a mean temperature nor
\* a failed historical fetch reaches it as a missing avg_temp_c, in either
\* flow.
Cex_C25_NumericHistTemp ==
    /\ historical_input # None => Val(historical_input).avg_temp_c # None
    /\ pc # "crashed"

----------------------------------------------------------------------------
(* src/config/settings.py, src/services/weather_api.py,                    *)
(* src/services/pollution_api.py: the API key and the service calls        *)

\* str.strip(): s without its leading and trailing blanks
RECURSIVE StripLeft(_)
StripLeft(s) == IF s # <<>> /\ Head(s) = " " THEN StripLeft(Tail(s)) ELSE s
RECURSIVE StripRight(_)
StripRight(s) ==
    IF s # <<>> /\ s[Len(s)] = " " THEN StripRight(SubSeq(s, 1, Len(s) - 1)) ELSE s
Strip(s) == StripRight(StripLeft(s))

\* _get_secret(name) for the one name OPENWEATHER_API_KEY.  sec is None when
\* st.secrets has no such entry (or cannot be read), else Some of a value
\* [is_str, text]; env is None when the variable is unset, else Some(str).
\* The result is Some(key) or None.
_get_secret(sec, env) ==
    IF sec # None /\ Val(sec).is_str /\ Strip(Val(sec).text) # <<>>
    THEN Some(Strip(Val(sec).text))
    ELSE IF env # None /\ Val(env) # <<>> /\ Strip(Val(env)) # <<>>
    THEN Some(Strip(Val(env)))
    ELSE None

get_openweather_api_key(sec, env) == _get_secret(sec, env)

\* what a service call leaves behind: the value returned, the requests
\* issued, and whether it ended in an exception
Outcome(ret, reqs, exc) == [returned |-> ret, requests |-> reqs, raised |-> exc]

\* requests.get(url, ...) carrying the key
Request(url, api_key) == [url |-> url, appid |-> Val(api_key)]

\* requests.get raised, or response.json() found no JSON in a 200 response
Fails(http) == http.raised \/ (http.status = 200 /\ http.body = None)

\* mutant: the key is not tested before the request is made
get_forecast_no_guard(api_key, http) ==
    LET reqs == <<[url |-> "BASE_URL", appid |-> api_key]>>
    IN  IF Fails(http) THEN Outcome(None, reqs, TRUE)
        ELSE IF http.status = 200 THEN Outcome(http.body, reqs, FALSE)
        ELSE Outcome(None, reqs, FALSE)

\* get_forecast(city), http being what the provider does with the request
get_forecast(api_key, http) ==
    IF api_key = None THEN Outcome(None, <<>>, FALSE)
    ELSE LET reqs == <<Request("BASE_URL", api_key)>>
         IN  IF Fails(http) THEN Outcome(None, reqs, TRUE)
             ELSE IF http.status = 200 THEN Outcome(http.body, reqs, FALSE)
             ELSE Outcome(None, reqs, FALSE)

\* get_forecast_by_coords(lat, lon)
get_forecast_by_coords(api_key, http) ==
    IF api_key = None THEN Outcome(None, <<>>, FALSE)
    ELSE LET reqs == <<Request("BASE_URL", api_key)>>
         IN  IF Fails(http) THEN Outcome(None, reqs, TRUE)
             ELSE IF http.status = 200 THEN Outcome(http.body, reqs, FALSE)
             ELSE Outcome(None, reqs, FALSE)

\* get_pollution_stats after the geocoding response geo has arrived
pollution_after_geo(api_key, geo, http) ==
    LET geo_req == <<Request("geo/1.0/direct", api_key)>>
        reqs == Append(geo_req, Request("POLLUTION_BASE_URL", api_key))
    IN  IF geo.raised THEN Outcome(None, geo_req, TRUE)
        ELSE IF geo.status # 200 THEN Outcome(None, geo_req, FALSE)
        ELSE IF geo.body = None THEN Outcome(None, geo_req, TRUE)
        ELSE IF Val(geo.body) = <<>> THEN Outcome(None, geo_req, FALSE)
        ELSE IF Val(geo.body)[1].lat = None \/ Val(geo.body)[1].lon = None
             THEN Outcome(None, geo_req, FALSE)
        ELSE IF Fails(http) THEN Outcome(None, reqs, TRUE)
        ELSE IF http.status = 200 THEN Outcome(http.body, reqs, FALSE)
        ELSE Outcome(None, reqs, FALSE)

\* get_pollution_stats(city)
get_pollution_stats(api_key, geo, http) ==
    IF api_key = None THEN Outcome(None, <<>>, FALSE)
    ELSE pollution_after_geo(api_key, geo, http)

\* the values st.secrets may hold for the key: none, blank strings, a
\* string, a string in blanks, a value that is no string
SecretValues ==
    {None,
     Some([is_str |-> TRUE, text |-> <<>>]),
     Some([is_str |-> TRUE, text |-> <<" ", " ">>]),
     Some([is_str |-> TRUE, text |-> <<"k", "1">>]),
     Some([is_str |-> TRUE, text |-> <<" ", "k", "1", " ">>]),
     Some([is_str |-> FALSE, text |-> <<>>])}

\* the values of the environment variable: unset, blank strings, a string
EnvValues == {None, Some(<<>>), Some(<<" ">>), Some(<<"k", "2">>)}

\* what the provider does with one request: the call raises, or a response
\* with a status and a JSON body (None when the body is no JSON)
HttpOutcomes(bodies) ==
    {[raised |-> TRUE, status |-> 0, body |-> None]}
    \cup [raised : {FALSE}, status : {200, 401, 404}, body : bodies \cup {None}]

ForecastBodies == {Some([list |-> <<>>]), Some([list |-> <<PointA>>])}

GeoBodies ==
    {Some(<<>>),
     Some(<<[lat |-> Some(R(10)), lon |-> None]>>),
     Some(<<[lat |-> Some(R(10)), lon |-> Some(R(20))]>>)}

PollutionBodies == {Some([list |-> <<[aqi |-> 2]>>])}

InitApi ==
    /\ secrets \in SecretValues
    /\ environ \in EnvValues
    /\ service = "none"
    /\ requests = <<>>
    /\ returned = None
    /\ exception = FALSE
    /\ attempt = 0
    /\ attempts = <<>>
    /\ sleeps = <<>>
    /\ openai_secret = None
    /\ openai_env = None
    /\ now = 0
    /\ _OPENAI_CLIENT_CACHE = None
    /\ _MODEL_CANDIDATES = <<>>
    /\ _SELECTED_MODEL = None
    /\ gemini_configured = FALSE
    /\ ai_pc = "idle"
    /\ has_parts = FALSE
    /\ client = None
    /\ models = <<>>
    /\ tried = <<>>
    /\ last_err = None
    /\ chat_result = None
    /\ pc = "idle"
    /\ flow = "none"
    /\ target_dt = <<>>
    /\ hist = None
    /\ steps = <<>>
    /\ display = <<>>
    /\ data = None
    /\ target_date = <<>>
    /\ op = "none"
    /\ weather = None
    /\ used_date = None
    /\ substituted = FALSE
    /\ previous = None
    /\ forecast_input = None
    /\ historical_input = None
    /\ result = None
    /\ suggestion = None
    /\ other_forecast = None
    /\ other_historical = None
    /\ other_result = None

\* src/config/settings.py: the Nominatim retry settings
GEOCODE_MAX_RETRIES == 3
GEOCODE_BACKOFF_BASE == Rat(1, 2)

\* what one geolocator.geocode call does: it raises, finds nothing (None),
\* or finds a location with a latitude and a longitude
GeocodeOutcomes ==
    {[raised |-> TRUE, location |-> None],
     [raised |-> FALSE, location |-> None],
     [raised |-> FALSE, location |-> Some(<<41, 2>>)]}

\* base_delay * (2 ** (attempt - 1)) + (0.05 * attempt)
sleep_for(k) ==
    RAdd(RMul(GEOCODE_BACKOFF_BASE, R(2 ^ (k - 1))), RMul(Rat(1, 20), R(k)))

\* mutant: a city that is not found is retried like a failed call
geocode_attempt_retry_none(k, o) ==
    IF ~o.raised /\ o.location # None
    THEN [done |-> TRUE, returned |-> o.location, raised |-> FALSE, slept |-> None]
    ELSE IF k = GEOCODE_MAX_RETRIES
    THEN [done |-> TRUE, returned |-> None, raised |-> o.raised, slept |-> None]
    ELSE [done |-> FALSE, returned |-> None, raised |-> FALSE,
          slept |-> Some(sleep_for(k))]

\* one pass of the loop body of _geocode_with_retries, for attempt k:
\* whether the function is left, with what, and the sleep before the next pass
geocode_attempt(k, o) ==
    IF ~o.raised
    THEN [done |-> TRUE, returned |-> o.location, raised |-> FALSE, slept |-> None]
    ELSE IF k = GEOCODE_MAX_RETRIES
    THEN [done |-> TRUE, returned |-> None, raised |-> TRUE, slept |-> None]
    ELSE [done |-> FALSE, returned |-> None, raised |-> FALSE,
          slept |-> Some(sleep_for(k))]

\* the service variables after a call ended with the outcome o
ServiceReturned(o) ==
    /\ returned' = o.returned
    /\ requests' = o.requests
    /\ exception' = o.raised

GetForecast(http) ==
    /\ attempt = 0
    /\ service' = "get_forecast"
    /\ ServiceReturned(get_forecast(get_openweather_api_key(secrets, environ), http))
    /\ UNCHANGED <<secrets, environ, scoreVars, dataVars, callVars, appVars, geoVars, aiVars>>

GetForecastByCoords(http) ==
    /\ attempt = 0
    /\ service' = "get_forecast_by_coords"
    /\ ServiceReturned(get_forecast_by_coords(
                           get_openweather_api_key(secrets, environ), http))
    /\ UNCHANGED <<secrets, environ, scoreVars, dataVars, callVars, appVars, geoVars, aiVars>>

GetPollutionStats(geo, http) ==
    /\ attempt = 0
    /\ service' = "get_pollution_stats"
    /\ ServiceReturned(get_pollution_stats(
                           get_openweather_api_key(secrets, environ), geo, http))
    /\ UNCHANGED <<secrets, environ, scoreVars, dataVars, callVars, appVars, geoVars, aiVars>>

\* _geocode_with_retries(geolocator, city_name) is entered: range(1, retries + 1)
GeocodeWithRetries ==
    /\ attempt = 0
    /\ GEOCODE_MAX_RETRIES >= 1
    /\ service' = "_geocode_with_retries"
    /\ attempt' = 1
    /\ attempts' = <<>>
    /\ sleeps' = <<>>
    /\ requests' = <<>>
    /\ returned' = None
    /\ exception' = FALSE
    /\ UNCHANGED <<secrets, environ, scoreVars, dataVars, callVars, appVars, aiVars>>

\* one pass of the loop: the geocode call, then a return, a raise, or the
\* sleep that precedes the next pass
GeocodeAttempt(o) ==
    /\ attempt > 0
    /\ LET step == geocode_attempt(attempt, o)
       IN  /\ attempts' = Append(attempts, o)
           /\ attempt' = IF step.done THEN 0 ELSE attempt + 1
           /\ sleeps' = IF step.slept # None THEN Append(sleeps, Val(step.slept))
                        ELSE sleeps
           /\ returned' = step.returned
           /\ exception' = step.raised
    /\ UNCHANGED <<secrets, environ, service, requests,
                   scoreVars, dataVars, callVars, appVars, aiVars>>

NextApi ==
    \/ \E http \in HttpOutcomes(ForecastBodies) : GetForecast(http)
    \/ \E http \in HttpOutcomes(ForecastBodies) : GetForecastByCoords(http)
    \/ \E geo \in HttpOutcomes(GeoBodies), http \in HttpOutcomes(PollutionBodies) :
          GetPollutionStats(geo, http)
    \/ GeocodeWithRetries
    \/ \E o \in GeocodeOutcomes : GeocodeAttempt(o)

SpecApi == InitApi /\ [][NextApi]_vars

\* the loop of _geocode_with_retries is not suspended for ever: time.sleep and
\* geocode(timeout = GEOCODE_TIMEOUT_SECONDS) both come back
SpecApiLive == SpecApi /\ WF_vars(\E o \in GeocodeOutcomes : GeocodeAttempt(o))

----------------------------------------------------------------------------
(* Claims about the service calls, checked under SpecApi *)

\* neither st.secrets nor the environment holds a key: each is absent, no
\* string, or a string of blanks only
NoKeyConfigured ==
    /\ secrets = None \/ ~Val(secrets).is_str
          \/ \A i \in 1..Len(Val(secrets).text) : Val(secrets).text[i] = " "
    /\ environ = None \/ \A i \in 1..Len(Val(environ)) : Val(environ)[i] = " "

\* C17: when no OpenWeather API key is configured, get_forecast,
\* get_forecast_by_coords and get_pollution_stats return None and issue no
\* HTTP request at all.
Thm_C17_NoKeyNoRequest ==
    (service \in {"get_forecast", "get_forecast_by_coords", "get_pollution_stats"}
        /\ NoKeyConfigured) =>
        /\ returned = None
        /\ requests = <<>>
        /\ ~exception

\* get_pollution_stats was called with a blank secret and a blank variable
Wit_C17_BlankKeyPollution ==
    /\ service = "get_pollution_stats"
    /\ secrets = Some([is_str |-> TRUE, text |-> <<" ", " ">>])
    /\ environ = Some(<<" ">>)
    /\ requests = <<>>
    /\ returned = None

\* the geocode calls of the last _geocode_with_retries call that raised
FailedAttempts == {i \in 1..Len(attempts) : attempts[i].raised}

GeocodeSafety ==
    /\ Len(attempts) <= GEOCODE_MAX_RETRIES
    /\ \A i \in 1..Len(attempts) : i < Len(attempts) => attempts[i].raised
    /\ attempt > 0 => /\ attempt = Len(attempts) + 1
                      /\ attempt <= GEOCODE_MAX_RETRIES
                      /\ FailedAttempts = 1..Len(attempts)
                      /\ Len(sleeps) = Len(attempts)
    /\ (attempt = 0 /\ service = "_geocode_with_retries") =>
          LET last == attempts[Len(attempts)]
          IN  /\ Len(sleeps) = Len(attempts) - 1
              /\ ~last.raised => returned = last.location /\ ~exception
              /\ last.raised => /\ Len(attempts) = GEOCODE_MAX_RETRIES
                                /\ exception /\ returned = None
              /\ exception => last.raised
    /\ \A i \in 1..Len(sleeps) :
          /\ sleeps[i] = RAdd(RMul(Rat(1, 2), R(2 ^ (i - 1))), Rat(i, 20))
          /\ i > 1 => RLt(sleeps[i - 1], sleeps[i])

\* C27: _geocode_with_retries ends after at most GEOCODE_MAX_RETRIES (3)
\* geocode calls: every call before the last one raised, a call that does not
\* raise ends the loop with its location (None when the city is not found),
\* a sleep of 0.5 * 2^(k-1) + 0.05 * k seconds follows the k-th failed call
\* only when another call follows, and the function raises exactly when the
\* third call raised; a loop that was entered is always left.
Thm_C27_GeocodeTerminates == []GeocodeSafety /\ ((attempt > 0) ~> (attempt = 0))

Wit_C27_TwoFailuresThenNotFound ==
    /\ service = "_geocode_with_retries"
    /\ attempt = 0
    /\ Len(attempts) = 3
    /\ ~attempts[3].raised
    /\ returned = None
    /\ ~exception
    /\ sleeps = <<Rat(11, 20), Rat(11, 10)>>

-----------------------------------------------------------------------------
(* src/services/openai_ai.py and src/services/gemini_ai.py: the AI helpers *)

\* the model names of openai_ai.py:38-45, in their order
DEFAULT_MODELS ==
    <<<<"g", "p", "t", "-", "4", "o", "-", "m", "i", "n", "i">>,
      <<"g", "p", "t", "-", "4", "o">>,
      <<"g", "p", "t", "-", "4", "o", "-", "2", "0", "2", "4", "-", "0", "8", "-", "0", "6">>,
      <<"g", "p", "t", "-", "4", ".", "1", "-", "m", "i", "n", "i">>,
      <<"g", "p", "t", "-", "4", ".", "1">>,
      <<"g", "p", "t", "-", "3", ".", "5", "-", "t", "u", "r", "b", "o">>>>

\* the de-dup loop of _load_model_candidates: order kept, empty names dropped
RECURSIVE uniq(_, _)
uniq(ordered, seen) ==
    IF ordered = <<>> THEN <<>>
    ELSE IF Head(ordered) # <<>> /\ Head(ordered) \notin seen
    THEN <<Head(ordered)>> \o uniq(Tail(ordered), seen \cup {Head(ordered)})
    ELSE uniq(Tail(ordered), seen)

\* _load_model_candidates(), explicit being the Option value of OPENAI_MODEL
\* found in st.secrets or, failing that, in the environment
_load_model_candidates(explicit) ==
    uniq((IF explicit # None /\ Val(explicit) # <<>>
          THEN <<Strip(Val(explicit))>> ELSE <<>>)
         \o DEFAULT_MODELS, {})

\* mutant: the selected model is not taken out of the candidates behind it
_choose_model_no_filter(selected, candidates) ==
    IF selected # None THEN <<Val(selected)>> \o candidates ELSE candidates

\* _choose_model(), reading the two globals
_choose_model(selected, candidates) ==
    IF selected # None
    THEN <<Val(selected)>> \o SelectSeq(candidates, LAMBDA x : x # Val(selected))
    ELSE candidates

_OPENAI_CACHE_TTL == 300

\* p in s, for two str
Contains(s, p) ==
    \E i \in 1..(Len(s) - Len(p) + 1) : SubSeq(s, i, i + Len(p) - 1) = p

\* the placeholder test of _configure
is_placeholder(key) ==
    \/ StartsWith(key, <<"R", "E", "P", "L", "A", "C", "E", "_">>)
    \/ StartsWith(key, <<"Y", "O", "U", "R", "_">>)
    \/ Contains(key, <<"R", "E", "P", "L", "A", "C", "E", "_", "W", "I", "T", "H">>)

\* the key of _configure (lines 70-78).  sec is None when st.secrets has no
\* OPENAI_API_KEY (or cannot be read), else Some([is_str, text]); a value that
\* is no str is kept as it is and is taken to be truthy.  env is None when
\* the variable is unset, else Some(str).
configured_key(sec, env) ==
    LET first == IF sec = None THEN None
                 ELSE IF Val(sec).is_str
                 THEN Some([is_str |-> TRUE, text |-> Strip(Val(sec).text)])
                 ELSE sec
    IN  IF first # None /\ (~Val(first).is_str \/ Val(first).text # <<>>)
        THEN first
        ELSE IF env # None /\ Val(env) # <<>> /\ Strip(Val(env)) # <<>>
        THEN Some([is_str |-> TRUE, text |-> Strip(Val(env))])
        ELSE None

\* OpenAI(api_key = key) built at time t
OpenAI(key, t) == [api_key |-> key, built |-> t]

\* what _configure leaves behind: the value returned, the cache, and whether
\* it ended in an exception
Configured(ret, cache, exc) == [returned |-> ret, cache |-> cache, raised |-> exc]

\* mutant: the cached client is reused whatever key it was built with
_configure_any_key(sec, env, t, cache, build_ok) ==
    LET key == configured_key(sec, env)
    IN  IF key = None THEN Configured(None, cache, FALSE)
        ELSE IF ~Val(key).is_str THEN Configured(None, cache, TRUE)
        ELSE IF is_placeholder(Val(key).text) THEN Configured(None, cache, FALSE)
        ELSE IF cache # None /\ t - Val(cache).ts < _OPENAI_CACHE_TTL
        THEN Configured(Some(Val(cache).client), cache, FALSE)
        ELSE IF build_ok
        THEN Configured(Some(OpenAI(Val(key).text, t)),
                        Some([client |-> OpenAI(Val(key).text, t), ts |-> t,
                              key |-> Val(key).text]), FALSE)
        ELSE Configured(None, cache, FALSE)

\* _configure() with the openai library installed, at time t, cache being
\* _OPENAI_CLIENT_CACHE.get('client') and build_ok whether OpenAI(...) comes
\* back; key.startswith raises for a key that is no str.  The organization
\* and project handed to the client are left out.
_configure(sec, env, t, cache, build_ok) ==
    LET key == configured_key(sec, env)
    IN  IF key = None THEN Configured(None, cache, FALSE)
        ELSE IF ~Val(key).is_str THEN Configured(None, cache, TRUE)
        ELSE IF is_placeholder(Val(key).text) THEN Configured(None, cache, FALSE)
        ELSE IF cache # None /\ t - Val(cache).ts < _OPENAI_CACHE_TTL
                /\ Val(cache).key = Val(key).text
        THEN Configured(Some(Val(cache).client), cache, FALSE)
        ELSE IF build_ok
        THEN Configured(Some(OpenAI(Val(key).text, t)),
                        Some([client |-> OpenAI(Val(key).text, t), ts |-> t,
                              key |-> Val(key).text]), FALSE)
        ELSE Configured(None, cache, FALSE)

\* the error code _chat derives from the lower-cased text of an exception;
\* raw is the set of the tested phrases that occur in that text
classify(raw) ==
    IF raw \cap {"invalid_api_key", "incorrect api key", "unauthorized"} # {}
    THEN "invalid_api_key"
    ELSE IF raw \cap {"model_not_found", "no such model", "does not exist"} # {}
    THEN "model_not_found"
    ELSE IF raw \cap {"rate limit", "capacity", "overloaded"} # {}
    THEN "rate_limited"
    ELSE IF raw \cap {"timeout", "timed out"} # {} THEN "timeout"
    ELSE IF "organization" \in raw /\ "not allowed" \in raw THEN "org_scope"
    ELSE IF "project" \in raw /\ raw \cap {"not found", "forbidden"} # {}
    THEN "project_scope"
    ELSE IF "connect" \in raw /\ raw \cap {"refused", "failed"} # {}
    THEN "network"
    ELSE "redacted"

\* last_err after the create call for `model` raised with the text raw: the
\* code, or the redacted text itself, which starts with the model name
chat_error(model, raw) == [code |-> classify(raw), model |-> model, raw |-> raw]

\* (resp.choices[0].message.content or "").strip()
chat_text(content) == IF content = None THEN <<>> ELSE Strip(Val(content))

\* what one client.chat.completions.create call does
ChatOutcomes ==
    {[raised |-> FALSE, content |-> None, raw |-> {}],
     [raised |-> FALSE, content |-> Some(<<" ", "S", "u", "n", "n", "y", ".", " ">>), raw |-> {}],
     [raised |-> TRUE, content |-> None, raw |-> {"unauthorized"}],
     [raised |-> TRUE, content |-> None, raw |-> {"does not exist", "timeout"}],
     [raised |-> TRUE, content |-> None, raw |-> {}]}

\* what gemini_ai._try_generate returns, a pair (text, error)
GeminiOutcomes ==
    {<<Some(<<"M", "i", "l", "d", ".">>), None>>, <<Some(<<>>), None>>, <<None, Some(<<"N", "o", "t", "F", "o", "u", "n", "d">>)>>}

\* the str a call returns: who wrote it, what it is, and the text inside
Text(by, kind, text) == [by |-> by, kind |-> kind, text |-> text]

\* gemini_ai.summarize_weather(weather) once _configure() answered True
gemini_summarize_weather(parts, g) ==
    IF ~parts THEN Text("gemini", "insufficient", <<>>)
    ELSE IF g[2] # None THEN Text("gemini", "unavailable", Val(g[2]))
    ELSE IF Val(g[1]) = <<>> THEN Text("gemini", "nothing generated", <<>>)
    ELSE Text("gemini", "text", Val(g[1]))

\* gemini_ai.answer_weather_question(question, context), likewise
gemini_answer_weather_question(g) ==
    IF g[2] # None THEN Text("gemini", "unavailable", Val(g[2]))
    ELSE IF Val(g[1]) = <<>> THEN Text("gemini", "nothing generated", <<>>)
    ELSE Text("gemini", "text", Val(g[1]))

\* _fallback_summary(weather) and _heuristic_answer(question, context)
_fallback_summary == Text("local", "summary", <<>>)
_heuristic_answer == Text("local", "answer", <<>>)

\* `text or "No summary generated"`, for the text _chat returned
openai_text(text) ==
    IF text = <<>> THEN Text("openai", "nothing generated", <<>>)
    ELSE Text("openai", "text", text)

\* the values of OPENAI_API_KEY in st.secrets and in the environment
OpenaiSecrets ==
    {None,
     Some([is_str |-> TRUE, text |-> <<" ", "s", "k", "-", "A", " ">>]),
     Some([is_str |-> TRUE, text |-> <<"Y", "O", "U", "R", "_", "K", "E", "Y">>]),
     Some([is_str |-> TRUE, text |-> <<" ">>]),
     Some([is_str |-> FALSE, text |-> <<>>])}
OpenaiEnvs == {None, Some(<<"s", "k", "-", "B">>), Some(<<" ">>)}

\* the values of OPENAI_MODEL when the module is imported
ExplicitModels == {None, Some(<<" ", "g", "p", "t", "-", "4", "o", " ">>), Some(<<"m", "y", "-", "m", "o", "d", "e", "l">>), Some(<<" ">>)}

\* the clock: the seconds between two looks at it, and the last second looked at
TickSeconds == 150
MaxNow == 600

\* what no call of openai_ai.py touches
aiFrame ==
    <<secrets, environ, requests, scoreVars, dataVars, callVars, appVars, geoVars,
      keyVars, _MODEL_CANDIDATES, gemini_configured>>

\* openai_ai.py after import, with a configuration and no call made yet
Imported(secs, envs, explicits, gems) ==
    /\ openai_secret \in secs
    /\ openai_env \in envs
    /\ now = 0
    /\ _OPENAI_CLIENT_CACHE = None
    /\ _MODEL_CANDIDATES \in {_load_model_candidates(e) : e \in explicits}
    /\ _SELECTED_MODEL = None
    /\ gemini_configured \in gems
    /\ ai_pc = "idle"
    /\ has_parts = FALSE
    /\ client = None
    /\ models = <<>>
    /\ tried = <<>>
    /\ last_err = None
    /\ chat_result = None
    /\ service = "none"
    /\ returned = None
    /\ exception = FALSE
    /\ secrets = None
    /\ environ = None
    /\ requests = <<>>
    /\ attempt = 0
    /\ attempts = <<>>
    /\ sleeps = <<>>
    /\ pc = "idle"
    /\ flow = "none"
    /\ target_dt = <<>>
    /\ hist = None
    /\ steps = <<>>
    /\ display = <<>>
    /\ data = None
    /\ target_date = <<>>
    /\ op = "none"
    /\ weather = None
    /\ used_date = None
    /\ substituted = FALSE
    /\ previous = None
    /\ forecast_input = None
    /\ historical_input = None
    /\ result = None
    /\ suggestion = None
    /\ other_forecast = None
    /\ other_historical = None
    /\ other_result = None

InitAi == Imported(OpenaiSecrets, {None}, ExplicitModels, BOOLEAN)

\* Gemini when gemini_ai.is_gemini_configured(), else the local text
degrade_summary(parts, gem, g) ==
    IF gem THEN gemini_summarize_weather(parts, g) ELSE _fallback_summary

\* summarize_weather(weather) up to its call of _chat
SummarizeWeather(parts, build_ok, g) ==
    /\ ai_pc = "idle"
    /\ service' = "summarize_weather"
    /\ has_parts' = parts
    /\ tried' = <<>>
    /\ last_err' = None
    /\ chat_result' = None
    /\ LET cfg == _configure(openai_secret, openai_env, now, _OPENAI_CLIENT_CACHE,
                             build_ok)
       IN  /\ _OPENAI_CLIENT_CACHE' = cfg.cache
           /\ client' = cfg.returned
           /\ exception' = cfg.raised
           /\ IF cfg.raised \/ cfg.returned = None \/ ~parts
              THEN /\ ai_pc' = "idle"
                   /\ models' = <<>>
                   /\ returned' =
                        IF cfg.raised THEN None
                        ELSE IF cfg.returned = None
                        THEN Some(degrade_summary(parts, gemini_configured, g))
                        ELSE Some(Text("openai", "insufficient", <<>>))
              ELSE /\ ai_pc' = "chat"
                   /\ models' = _choose_model(_SELECTED_MODEL, _MODEL_CANDIDATES)
                   /\ returned' = None
    /\ UNCHANGED <<_SELECTED_MODEL, aiFrame>>

\* answer_weather_question(question, context) up to its call of _chat
AnswerWeatherQuestion(build_ok, g) ==
    /\ ai_pc = "idle"
    /\ service' = "answer_weather_question"
    /\ has_parts' = FALSE
    /\ tried' = <<>>
    /\ last_err' = None
    /\ chat_result' = None
    /\ LET cfg == _configure(openai_secret, openai_env, now, _OPENAI_CLIENT_CACHE,
                             build_ok)
       IN  /\ _OPENAI_CLIENT_CACHE' = cfg.cache
           /\ client' = cfg.returned
           /\ exception' = cfg.raised
           /\ IF cfg.raised \/ cfg.returned = None
              THEN /\ ai_pc' = "idle"
                   /\ models' = <<>>
                   /\ returned' =
                        IF cfg.raised THEN None
                        ELSE IF gemini_configured
                        THEN Some(gemini_answer_weather_question(g))
                        ELSE Some(_heuristic_answer)
              ELSE /\ ai_pc' = "chat"
                   /\ models' = _choose_model(_SELECTED_MODEL, _MODEL_CANDIDATES)
                   /\ returned' = None
    /\ UNCHANGED <<_SELECTED_MODEL, aiFrame>>

\* one pass of the loop of _chat: the create call for the next model, then
\* the return of (text, None), the next pass, or the return of (None, last_err)
ChatAttempt(o) ==
    /\ ai_pc \in {"chat", "validate"}
    /\ Len(tried) < Len(models)
    /\ LET model == models[Len(tried) + 1]
           left == IF ai_pc = "chat" THEN "chat_done" ELSE "validate_done"
       IN  /\ tried' = Append(tried, [model |-> model, raised |-> o.raised])
           /\ IF ~o.raised
              THEN /\ _SELECTED_MODEL' = Some(model)
                   /\ chat_result' = Some(<<Some(chat_text(o.content)), None>>)
                   /\ ai_pc' = left
                   /\ UNCHANGED <<last_err, _OPENAI_CLIENT_CACHE>>
              ELSE /\ last_err' = Some(chat_error(model, o.raw))
                   /\ _OPENAI_CLIENT_CACHE' =
                        IF classify(o.raw) = "invalid_api_key" THEN None
                        ELSE _OPENAI_CLIENT_CACHE
                   /\ IF Len(tried) + 1 = Len(models)
                      THEN /\ chat_result' = Some(<<None, Some(chat_error(model, o.raw))>>)
                           /\ ai_pc' = left
                      ELSE UNCHANGED <<chat_result, ai_pc>>
                   /\ UNCHANGED _SELECTED_MODEL
    /\ UNCHANGED <<service, returned, exception, has_parts, client, models, aiFrame>>

\* summarize_weather after _chat returned (lines 251-260)
SummarizeAfterChat(g) ==
    /\ ai_pc = "chat_done"
    /\ service = "summarize_weather"
    /\ ai_pc' = "idle"
    /\ returned' =
         IF Val(chat_result)[2] # None
         THEN Some(degrade_summary(has_parts, gemini_configured, g))
         ELSE Some(openai_text(Val(Val(chat_result)[1])))
    /\ UNCHANGED <<service, exception, has_parts, client, models, tried, last_err,
                   chat_result, _OPENAI_CLIENT_CACHE, _SELECTED_MODEL, aiFrame>>

\* answer_weather_question after _chat returned (lines 278-290); with an
\* error and no Gemini it calls validate_openai_key(), which calls _configure
\* and _chat again before the local answer is returned
AnswerAfterChat(build_ok, g) ==
    /\ ai_pc = "chat_done"
    /\ service = "answer_weather_question"
    /\ IF Val(chat_result)[2] = None \/ gemini_configured
       THEN /\ ai_pc' = "idle"
            /\ returned' =
                 IF Val(chat_result)[2] = None
                 THEN Some(openai_text(Val(Val(chat_result)[1])))
                 ELSE Some(gemini_answer_weather_question(g))
            /\ UNCHANGED <<client, models, tried, last_err, chat_result,
                           _OPENAI_CLIENT_CACHE>>
       ELSE LET cfg == _configure(openai_secret, openai_env, now,
                                  _OPENAI_CLIENT_CACHE, build_ok)
            IN  /\ _OPENAI_CLIENT_CACHE' = cfg.cache
                /\ IF cfg.raised \/ cfg.returned = None
                   THEN /\ ai_pc' = "idle"
                        /\ returned' = Some(_heuristic_answer)
                        /\ UNCHANGED <<client, models, tried, last_err, chat_result>>
                   ELSE /\ ai_pc' = "validate"
                        /\ client' = cfg.returned
                        /\ models' = _choose_model(_SELECTED_MODEL, _MODEL_CANDIDATES)
                        /\ tried' = <<>>
                        /\ last_err' = None
                        /\ chat_result' = None
                        /\ returned' = None
    /\ UNCHANGED <<service, exception, has_parts, _SELECTED_MODEL, aiFrame>>

\* answer_weather_question after validate_openai_key() came back
AnswerAfterValidate ==
    /\ ai_pc = "validate_done"
    /\ ai_pc' = "idle"
    /\ returned' = Some(_heuristic_answer)
    /\ UNCHANGED <<service, exception, has_parts, client, models, tried, last_err,
                   chat_result, _OPENAI_CLIENT_CACHE, _SELECTED_MODEL, aiFrame>>

NextAi ==
    \/ \E parts \in BOOLEAN, build_ok \in BOOLEAN, g \in GeminiOutcomes :
          SummarizeWeather(parts, build_ok, g)
    \/ \E build_ok \in BOOLEAN, g \in GeminiOutcomes :
          AnswerWeatherQuestion(build_ok, g)
    \/ \E o \in ChatOutcomes : ChatAttempt(o)
    \/ \E g \in GeminiOutcomes : SummarizeAfterChat(g)
    \/ \E build_ok \in BOOLEAN, g \in GeminiOutcomes : AnswerAfterChat(build_ok, g)
    \/ AnswerAfterValidate

SpecAi == InitAi /\ [][NextAi]_vars

\* st.secrets["OPENAI_API_KEY"] is set, changed or removed
SetSecret(v) ==
    /\ ai_pc = "idle"
    /\ openai_secret' = v
    /\ openai_secret # v
    /\ UNCHANGED <<openai_env, now, _OPENAI_CLIENT_CACHE, modelVars,
                   gemini_configured, chatVars, scoreVars, dataVars, callVars,
                   appVars, apiVars, geoVars>>

\* os.environ["OPENAI_API_KEY"] is set, changed or removed
SetEnv(v) ==
    /\ ai_pc = "idle"
    /\ openai_env' = v
    /\ openai_env # v
    /\ UNCHANGED <<openai_secret, now, _OPENAI_CLIENT_CACHE, modelVars,
                   gemini_configured, chatVars, scoreVars, dataVars, callVars,
                   appVars, apiVars, geoVars>>

\* time passes
Tick ==
    /\ ai_pc = "idle"
    /\ now + TickSeconds <= MaxNow
    /\ now' = now + TickSeconds
    /\ UNCHANGED <<openai_secret, openai_env, _OPENAI_CLIENT_CACHE, modelVars,
                   gemini_configured, chatVars, scoreVars, dataVars, callVars,
                   appVars, apiVars, geoVars>>

\* a call of _configure()
Configure(build_ok) ==
    /\ ai_pc = "idle"
    /\ service' = "_configure"
    /\ LET cfg == _configure(openai_secret, openai_env, now, _OPENAI_CLIENT_CACHE,
                             build_ok)
       IN  /\ _OPENAI_CLIENT_CACHE' = cfg.cache
           /\ returned' = cfg.returned
           /\ exception' = cfg.raised
    /\ UNCHANGED <<chatVars, _SELECTED_MODEL, aiFrame>>

InitConfigure == Imported(OpenaiSecrets, OpenaiEnvs, {None}, {FALSE})

NextConfigure ==
    \/ \E v \in OpenaiSecrets : SetSecret(v)
    \/ \E v \in OpenaiEnvs : SetEnv(v)
    \/ Tick
    \/ \E build_ok \in BOOLEAN : Configure(build_ok)

SpecConfigure == InitConfigure /\ [][NextConfigure]_vars

-----------------------------------------------------------------------------
(* Claims about _chat, checked under SpecAi *)

Range(s) == {s[i] : i \in 1..Len(s)}
NoDup(s) == \A i, j \in 1..Len(s) : i # j => s[i] # s[j]
Pos(s, x) == CHOOSE k \in 1..Len(s) : s[k] = x

\* the list of a running _chat: the model selected before, if any, then the
\* other candidates in their own order
SelectedThenCandidates ==
    /\ Range(models) = Range(_MODEL_CANDIDATES)
                           \cup (IF _SELECTED_MODEL # None THEN {Val(_SELECTED_MODEL)} ELSE {})
    /\ _SELECTED_MODEL # None => models[1] = Val(_SELECTED_MODEL)
    /\ \A i, j \in 1..Len(models) :
          (i < j /\ (_SELECTED_MODEL = None \/ i > 1)) =>
              Pos(_MODEL_CANDIDATES, models[i]) < Pos(_MODEL_CANDIDATES, models[j])

\* C28: _chat tries the models of its list one after another, the list being
\* the model that succeeded last and then the other candidates, no model
\* twice; it stops at the first model that succeeds, makes it the selected
\* model and returns (text, None); it returns (None, error) only after every
\* model of the list failed, the error being the one of the last model.
Thm_C28_ChatOrder ==
    /\ NoDup(models)
    /\ Len(tried) <= Len(models)
    /\ \A i \in 1..Len(tried) :
          /\ tried[i].model = models[i]
          /\ i < Len(tried) => tried[i].raised
    /\ ai_pc \in {"chat", "validate"} =>
          /\ SelectedThenCandidates
          /\ chat_result = None
          /\ \A i \in 1..Len(tried) : tried[i].raised
    /\ chat_result # None =>
          /\ tried # <<>>
          /\ Val(chat_result)[2] = None =>
                /\ ~tried[Len(tried)].raised
                /\ _SELECTED_MODEL = Some(tried[Len(tried)].model)
                /\ Val(chat_result)[1] # None
          /\ Val(chat_result)[2] # None =>
                /\ Val(chat_result)[1] = None
                /\ Len(tried) = Len(models)
                /\ Range(_MODEL_CANDIDATES) \subseteq {tried[i].model : i \in 1..Len(tried)}
                /\ \A i \in 1..Len(tried) : tried[i].raised
                /\ Val(chat_result)[2] = last_err
                /\ Val(Val(chat_result)[2]).model = tried[Len(tried)].model
                /\ Val(Val(chat_result)[2]).code = classify(Val(Val(chat_result)[2]).raw)

\* the model selected before was tried first and failed, and the third model
\* of the list, the second candidate, answered
Wit_C28_SelectedFirstThirdAnswers ==
    /\ ai_pc = "chat_done"
    /\ Len(tried) = 3
    /\ ~tried[3].raised
    /\ models[1] = DEFAULT_MODELS[5]
    /\ tried[3].model = DEFAULT_MODELS[2]
    /\ _MODEL_CANDIDATES[1] = DEFAULT_MODELS[1]
    /\ _SELECTED_MODEL = Some(DEFAULT_MODELS[2])

-----------------------------------------------------------------------------
(* Claims about _configure, checked under SpecConfigure *)

\* the key that is configured, the empty str when there is none
CurrentKey ==
    LET sec == IF openai_secret # None /\ Val(openai_secret).is_str
               THEN Strip(Val(openai_secret).text) ELSE <<>>
        env == IF openai_env # None THEN Strip(Val(openai_env)) ELSE <<>>
    IN  IF sec # <<>> THEN sec ELSE env

NoUsableKey ==
    /\ openai_secret = None \/ Val(openai_secret).is_str
    /\ \/ CurrentKey = <<>>
       \/ CurrentKey \in {<<"Y", "O", "U", "R", "_", "K", "E", "Y">>, <<"R", "E", "P", "L", "A", "C", "E", "_", "M", "E">>, <<"M", "Y", "_", "R", "E", "P", "L", "A", "C", "E", "_", "W", "I", "T", "H", "_", "K", "E", "Y">>}

\* the step returned the client that was in the cache, and left it there
Reused ==
    /\ _OPENAI_CLIENT_CACHE # None
    /\ returned' = Some(Val(_OPENAI_CLIENT_CACHE).client)
    /\ _OPENAI_CLIENT_CACHE' = _OPENAI_CLIENT_CACHE

\* C29: every _configure call that returns a client returns one built with
\* the key configured at the time of the call; the cached client is returned
\* only when its stored key is that key and it is younger than 300 seconds;
\* with no key or a placeholder key the call returns None, whatever is cached.
Thm_C29_ClientHasCurrentKey ==
    [][(\E build_ok \in BOOLEAN : Configure(build_ok)) =>
          /\ returned' # None => /\ Val(returned').api_key = CurrentKey
                                 /\ ~NoUsableKey
          /\ Reused => /\ Val(_OPENAI_CLIENT_CACHE).key = CurrentKey
                       /\ now - Val(_OPENAI_CLIENT_CACHE).ts < 300
          /\ NoUsableKey => returned' = None /\ ~exception']_vars

\* _configure returned None for a placeholder key while a young client,
\* built with another key, was cached
Wit_C29_PlaceholderWithCachedClient ==
    /\ service = "_configure"
    /\ returned = None
    /\ ~exception
    /\ CurrentKey = <<"Y", "O", "U", "R", "_", "K", "E", "Y">>
    /\ _OPENAI_CLIENT_CACHE # None
    /\ Val(_OPENAI_CLIENT_CACHE).key = <<"s", "k", "-", "B">>
    /\ now - Val(_OPENAI_CLIENT_CACHE).ts < 300

-----------------------------------------------------------------------------
(* Claims about summarize_weather and answer_weather_question, under SpecAi *)

\* OpenAI gave the finished call no text: no client, or _chat returned an error
OpenAIFailed ==
    \/ client = None
    \/ chat_result # None /\ Val(chat_result)[2] # None

\* C30 (as stated): a finished summarize_weather or answer_weather_question
\* call did not raise and did not return a provider error message; when
\* OpenAI was not configured or failed, the text is Gemini's if Gemini is
\* configured and answered, and the local heuristic text otherwise.
Cex_C30_NoProviderError ==
    (service \in {"summarize_weather", "answer_weather_question"} /\ ai_pc = "idle")
    => /\ ~exception
       /\ returned # None
       /\ Val(returned).kind # "unavailable"
       /\ OpenAIFailed =>
             \/ gemini_configured /\ Val(returned).by = "gemini"
                    /\ Val(returned).kind # "unavailable"
             \/ Val(returned).by = "local"

=============================================================================
